---------------------------- MODULE Spec2Model ----------------------------
(***************************************************************************)
(* A model of the time-based Keno analyzer                                 *)
(* (live_demos/keno_demo/keno_analyzer_v5.py).                             *)
(*                                                                         *)
(* The analyzer's algorithms are pure functions of a draw history, so the  *)
(* module holds one specification per family of functions:                 *)
(*   SpecClock      one row of the data frame: TimeKey, CorrectedTimeKey   *)
(*                  and TimeWindow under the configured offset             *)
(*   SpecOffset     the timing correction under any configured offset      *)
(*   SpecGroup      one group of rows (a time slot / a window): frequency  *)
(*                  counting, ball recommendations, consistency scores and *)
(*                  combination mining                                     *)
(*   SpecConfidence the confidence of a slot summary against a ranking     *)
(*   SpecStrategy   the strategy tiers of a confidence level                *)
(*   SpecAnalyzer   the analyzer object over a data frame of several slots: *)
(*                  analysis, ranking, recommendation and the generated     *)
(*                  module, called in any order                             *)
(* Python floats are modelled as exact rationals <<numerator,denominator>>.*)
(***************************************************************************)
EXTENDS Integers, Sequences, FiniteSets, TLC

VARIABLES
    \* ---- one row of the data frame (load_and_prepare_data) ----
    hour,         \* df['Hour']
    minute,       \* df['Minute']
    offset,       \* V5_CONFIG['TIMING_OFFSET_MINUTES']
    timekey,      \* df['TimeKey'], a string (sequence of characters)
    corrected,    \* df['CorrectedTimeKey']: <<>> before it is computed, else <<string>>
    window,       \* df['TimeWindow']: <<>> before it is computed, else <<string>>
    generated,    \* result of the generated module's apply_timing_correction(TimeKey)
    \* ---- one group of rows and what the analyzer derives from it ----
    group,        \* the rows of df that share the TimeKey / TimeWindow above, in file order
    helper,       \* results of the scoring helpers called on the group's draws: <<>> or <<record>>
    time_patterns,         \* self.time_patterns: a dict, as a sequence of <<key, value>>
    time_window_patterns,  \* self.time_window_patterns: a dict, as a sequence of <<key, value>>
    \* ---- the ranking and the confidence computed against it ----
    optimal_times,  \* self.optimal_times: a dict in ranking order, as a sequence of <<key, value>>
    confidence,     \* result of _calculate_v5_confidence: <<>> or <<record>>
    \* ---- the analyzer object over a whole data frame ----
    df,             \* self.df: the rows of the CSV in file order, each [Hour, Minute, Balls]
    runs,           \* which analysis methods have been called on the analyzer, and in what order
    exported,       \* the generated module keno_patterns_v5.py: <<>> or <<record of its constants>>
    returned,       \* the last call and what it returned: <<>> or <<record>>
    pipeline        \* run_complete_v5_analysis: the file it reads, where it stands, what it did

clockVars == <<hour, minute, offset, timekey, corrected, window, generated>>

groupVars == <<group, helper, time_patterns, time_window_patterns>>

adviceVars == <<optimal_times, confidence>>

analyzerVars == <<df, runs, exported, returned, pipeline>>

vars == <<clockVars, groupVars, adviceVars, analyzerVars>>

-----------------------------------------------------------------------------
(* Bounds of the model *)

\* largest magnitude of a configured timing offset that SpecOffset tries
MaxOffset == 61

\* number of time slots with a summary that SpecConfidence goes up to
MaxSlots == 6

\* number of Ball columns of the data frame (20 in the cleaned CSV)
NumBallCols == 4

\* a group's first MaxVaried rows are any rows of DrawPool; the rows after them
\* repeat the last one
MaxVaried == 3

\* largest number of rows of a group
MaxDraws == 8

-----------------------------------------------------------------------------
(* Program constants *)

\* V5_CONFIG['TIMING_OFFSET_MINUTES']
TIMING_OFFSET_MINUTES == -5

\* width of a time window: the literal 5 of _create_v5_time_window
WINDOW_MINUTES == 5

\* V5_CONFIG['MIN_DRAWS_FOR_ANALYSIS']
MIN_DRAWS_FOR_ANALYSIS == 5

\* the literal 8 of analyze_time_window_patterns_v5
WINDOW_MIN_DRAWS == 8

\* V5_CONFIG['MAX_RECOMMENDATIONS']
MAX_RECOMMENDATIONS == 15

\* most_common(10) of _calculate_v5_consistency
CONSISTENCY_TOP == 10

\* the [:10] of _analyze_v5_combinations
MAX_COMBINATIONS == 10

\* most_common(20) of analyze_time_window_patterns_v5
WINDOW_HOT == 20

\* range(1, 9): the largest ball count
MAX_BALLS == 8

\* a missing cell of a Ball column (pandas NaN); ball numbers are 1..80
NaN == 0

-----------------------------------------------------------------------------
(* Strings: Python's str(int), the format spec 02d, int(str) and split(':') *)

DigitChar(d) == <<"0", "1", "2", "3", "4", "5", "6", "7", "8", "9">>[d + 1]

IsDigitChar(c) == \E d \in 0..9 : DigitChar(d) = c

DigitVal(c) == CHOOSE d \in 0..9 : DigitChar(d) = c

RECURSIVE NatStr(_)
NatStr(n) == IF n < 10 THEN <<DigitChar(n)>>
             ELSE NatStr(n \div 10) \o <<DigitChar(n % 10)>>

\* str(n) of a Python int
IntStr(n) == IF n < 0 THEN <<"-">> \o NatStr(0 - n) ELSE NatStr(n)

\* f"{n:02d}": the sign counts in the width, padding zeros follow the sign
Format02d(n) == IF Len(IntStr(n)) >= 2 THEN IntStr(n) ELSE <<"0">> \o IntStr(n)

\* str.zfill(2)
ZFill2(s) == IF Len(s) >= 2 THEN s ELSE <<"0">> \o s

\* int(s) of a string of decimal digits
RECURSIVE ParseNat(_)
ParseNat(s) == IF Len(s) = 0 THEN 0
               ELSE 10 * ParseNat(SubSeq(s, 1, Len(s) - 1)) + DigitVal(s[Len(s)])

\* position of the first ':' of s
ColonPos(s) == CHOOSE i \in 1..Len(s) : s[i] = ":" /\ \A j \in 1..(i - 1) : s[j] # ":"

\* hour, minute = map(int, time_key.split(':'))
SplitHour(s) == ParseNat(SubSeq(s, 1, ColonPos(s) - 1))
SplitMinute(s) == ParseNat(SubSeq(s, ColonPos(s) + 1, Len(s)))

-----------------------------------------------------------------------------
(* load_and_prepare_data: the per-row time columns *)

\* df['TimeKey'] = Hour.astype(str).str.zfill(2) + ':' + Minute.astype(str).str.zfill(2)
TimeKeyOf(h, m) == ZFill2(IntStr(h)) \o <<":">> \o ZFill2(IntStr(m))

\* _apply_timing_correction with the offset as a parameter
ApplyTimingCorrectionNoWrap(h, m, off) ==
    LET cm == m + off
        ch == IF cm < 0 THEN h - 1 ELSE IF cm >= 60 THEN h + 1 ELSE h
        mm == IF cm < 0 THEN 60 + cm ELSE IF cm >= 60 THEN cm - 60 ELSE cm
    IN  Format02d(ch) \o <<":">> \o Format02d(mm)

ApplyTimingCorrection(h, m, off) ==
    LET cm == m + off
        ch == IF cm < 0
              THEN (IF h - 1 < 0 THEN 23 ELSE h - 1)
              ELSE IF cm >= 60
                   THEN (IF h + 1 >= 24 THEN 0 ELSE h + 1)
                   ELSE h
        mm == IF cm < 0 THEN 60 + cm
              ELSE IF cm >= 60 THEN cm - 60
              ELSE cm
    IN  Format02d(ch) \o <<":">> \o Format02d(mm)

\* apply_timing_correction(time_key) of the generated keno_patterns_v5 module
GeneratedApplyTimingCorrection(key, off) ==
    LET h  == SplitHour(key)
        m  == SplitMinute(key)
        cm == m + off
        ch == IF cm < 0 THEN (IF h > 0 THEN h - 1 ELSE 23)
              ELSE IF cm >= 60 THEN (IF h < 23 THEN h + 1 ELSE 0)
              ELSE h
        mm == IF cm < 0 THEN 60 + cm
              ELSE IF cm >= 60 THEN cm - 60
              ELSE cm
    IN  Format02d(ch) \o <<":">> \o Format02d(mm)

\* _create_v5_time_window, with the end of the window one minute too late
CreateV5TimeWindowLong(h, m) ==
    LET ws == (m \div WINDOW_MINUTES) * WINDOW_MINUTES
        we == ws + WINDOW_MINUTES
        wend == IF we >= 60
                THEN Format02d(IF h < 23 THEN h + 1 ELSE 0) \o <<":">> \o Format02d(we - 60)
                ELSE Format02d(h) \o <<":">> \o Format02d(we)
    IN  Format02d(h) \o <<":">> \o Format02d(ws) \o <<"-">> \o wend

\* _create_v5_time_window
CreateV5TimeWindow(h, m) ==
    LET ws == (m \div WINDOW_MINUTES) * WINDOW_MINUTES
        we == ws + (WINDOW_MINUTES - 1)
        wend == IF we >= 60
                THEN Format02d(IF h < 23 THEN h + 1 ELSE 0) \o <<":">> \o Format02d(we - 60)
                ELSE Format02d(h) \o <<":">> \o Format02d(we)
    IN  Format02d(h) \o <<":">> \o Format02d(ws) \o <<"-">> \o wend

-----------------------------------------------------------------------------
(* SpecClock / SpecOffset: one row through the time columns *)

\* no analysis method has been called
NoRuns ==
    [exact |-> FALSE, window |-> FALSE, ranking |-> FALSE,
     ranked_after_exact |-> FALSE, repeated |-> FALSE]

\* exact-time analysis, window analysis and, after the exact-time analysis, the
\* ranking have run
FirstPassDone(r) == r.exact /\ r.window /\ r.ranked_after_exact

\* run_complete_v5_analysis has not been called
NoPipeline == [csv |-> <<>>, pc |-> "idle", steps |-> <<>>, result |-> <<>>, raised |-> <<>>]

\* the variables of the analyzer object, for the specifications that do not use them
NoAnalyzer ==
    /\ df = <<>>
    /\ runs = NoRuns
    /\ exported = <<>>
    /\ returned = <<>>
    /\ pipeline = NoPipeline

InitRow(offsets) ==
    /\ hour \in 0..23
    /\ minute \in 0..59
    /\ offset \in offsets
    /\ timekey = TimeKeyOf(hour, minute)
    /\ corrected = <<>>
    /\ window = <<>>
    /\ generated = <<>>
    /\ group = <<>>
    /\ helper = <<>>
    /\ time_patterns = <<>>
    /\ time_window_patterns = <<>>
    /\ optimal_times = <<>>
    /\ confidence = <<>>
    /\ NoAnalyzer

\* df['CorrectedTimeKey'] = df.apply(self._apply_timing_correction, axis=1)
ApplyCorrectionStep ==
    /\ corrected = <<>>
    /\ corrected' = <<ApplyTimingCorrection(hour, minute, offset)>>
    /\ UNCHANGED <<hour, minute, offset, timekey, window, generated, groupVars, adviceVars, analyzerVars>>

\* df['TimeWindow'] = df.apply(self._create_v5_time_window, axis=1)
CreateWindowStep ==
    /\ corrected # <<>>
    /\ window = <<>>
    /\ window' = <<CreateV5TimeWindow(hour, minute)>>
    /\ UNCHANGED <<hour, minute, offset, timekey, corrected, generated, groupVars, adviceVars, analyzerVars>>

\* a caller of the generated module corrects the row's TimeKey
GeneratedCorrectionStep ==
    /\ generated = <<>>
    /\ generated' = <<GeneratedApplyTimingCorrection(timekey, offset)>>
    /\ UNCHANGED <<hour, minute, offset, timekey, corrected, window, groupVars, adviceVars, analyzerVars>>

InitClock == InitRow({TIMING_OFFSET_MINUTES})

NextClock == ApplyCorrectionStep \/ CreateWindowStep \/ GeneratedCorrectionStep

SpecClock == InitClock /\ [][NextClock]_vars

InitOffset == InitRow((0 - MaxOffset)..MaxOffset)

NextOffset == ApplyCorrectionStep

SpecOffset == InitOffset /\ [][NextOffset]_vars

-----------------------------------------------------------------------------
(* Reading a time key back: what "a valid HH:MM" means *)

IsClockString(s) ==
    /\ Len(s) = 5
    /\ s[3] = ":"
    /\ \A i \in {1, 2, 4, 5} : IsDigitChar(s[i])

ClockHour(s) == 10 * DigitVal(s[1]) + DigitVal(s[2])
ClockMinute(s) == 10 * DigitVal(s[4]) + DigitVal(s[5])

ValidTimeKey(s) ==
    /\ IsClockString(s)
    /\ ClockHour(s) \in 0..23
    /\ ClockMinute(s) \in 0..59

\* the zero-padded HH:MM of minute t of the day
ClockString(t) ==
    <<DigitChar((t \div 60) \div 10), DigitChar((t \div 60) % 10), ":",
      DigitChar((t % 60) \div 10), DigitChar((t % 60) % 10)>>

\* C1 as stated: under any configured offset the corrected key is a valid HH:MM
C1_AnyOffsetValid ==
    corrected # <<>> => ValidTimeKey(corrected[1])

\* C1 amended: under a configured offset of at most 60 minutes either way
\* the corrected key is a valid HH:MM
C1_SmallOffsetValid ==
    (corrected # <<>> /\ offset >= -60 /\ offset <= 60) => ValidTimeKey(corrected[1])

C1_Witness ==
    /\ corrected # <<>>
    /\ offset = 60 /\ hour = 23 /\ minute = 59
    /\ corrected[1] = <<"0", "0", ":", "5", "9">>

\* C7: with the configured offset of -5 the corrected key is the clock time
\* (60*hour + minute - 5) mod 1440, zero-padded, in the analyzer and in the
\* generated module alike
C7_MinusFiveClock ==
    LET want == ClockString((60 * hour + minute + TIMING_OFFSET_MINUTES) % 1440)
    IN  /\ corrected # <<>> => corrected[1] = want
        /\ generated # <<>> => generated[1] = want

C7_Witness ==
    /\ hour = 0 /\ minute = 2
    /\ corrected = << <<"2", "3", ":", "5", "7">> >>
    /\ generated = << <<"2", "3", ":", "5", "7">> >>

-----------------------------------------------------------------------------
(* Reading a window label back *)

WindowStartKey(w) == SubSeq(w, 1, 5)
WindowEndKey(w) == SubSeq(w, 7, 11)

IsWindowLabel(w) ==
    /\ Len(w) = 11
    /\ w[6] = "-"
    /\ ValidTimeKey(WindowStartKey(w))
    /\ ValidTimeKey(WindowEndKey(w))

MinuteOfDay(s) == 60 * ClockHour(s) + ClockMinute(s)

\* minute t of the day lies between the start and the end of window label w
Covers(w, t) ==
    /\ MinuteOfDay(WindowStartKey(w)) <= t
    /\ t <= MinuteOfDay(WindowEndKey(w))

\* for each of the 1440 minutes of a day: the label the window assigner gives
\* it, and the first and last minute of the day that the label names
DayWindows ==
    [u \in 0..1439 |->
        LET w == CreateV5TimeWindow(u \div 60, u % 60)
        IN  [label |-> w,
             first |-> MinuteOfDay(WindowStartKey(w)),
             last  |-> MinuteOfDay(WindowEndKey(w))]]

\* C6: the row's label is well formed, covers the row's time and is the only
\* label of the day that does; the minutes that get this label are exactly the
\* 5 minutes from its start to its end, and the day has 288 labels
C6_WindowsTileTheDay ==
    window # <<>> =>
        LET w == window[1]
            t == 60 * hour + minute
            a == MinuteOfDay(WindowStartKey(w))
            b == MinuteOfDay(WindowEndKey(w))
        IN  /\ IsWindowLabel(w)
            /\ Covers(w, t)
            /\ b - a + 1 = 5
            /\ \A u \in 0..1439 :
                   (DayWindows[u].first <= t /\ t <= DayWindows[u].last)
                       <=> DayWindows[u].label = w
            /\ \A u \in 0..1439 : DayWindows[u].label = w <=> (a <= u /\ u <= b)
            /\ t = 0 => Cardinality({DayWindows[u].label : u \in 0..1439}) = 288

C6_Witness ==
    /\ hour = 9 /\ minute = 47
    /\ window = << <<"0", "9", ":", "4", "5", "-", "0", "9", ":", "4", "9">> >>

-----------------------------------------------------------------------------
(* Python floats as exact rationals <<numerator, denominator>>, denominator > 0, *)
(* in lowest terms                                                               *)

Abs(n) == IF n < 0 THEN 0 - n ELSE n

\* The arithmetic is written as functions of values, so that an operand is
\* evaluated once however often the result is used.
Q == Int \X Int

gcd[a \in Nat, b \in Nat] == IF b = 0 THEN a ELSE gcd[b, a % b]

rat[n \in Int, d \in Int] == LET g == gcd[Abs(n), d] IN <<n \div g, d \div g>>

\* n / d
Rat(n, d) == rat[n, d]

RInt(n) == <<n, 1>>

\* the sum over the least common denominator
radd[a \in Q, b \in Q] ==
    LET g == gcd[a[2], b[2]]
    IN  rat[a[1] * (b[2] \div g) + b[1] * (a[2] \div g), (a[2] \div g) * b[2]]

RAdd(a, b) == radd[a, b]

rmul[a \in Q, b \in Q] == rat[a[1] * b[1], a[2] * b[2]]

RMul(a, b) == rmul[a, b]

\* a / n for an integer n > 0
RDivInt(a, n) == rmul[a, <<1, n>>]

rle[a \in Q, b \in Q] ==
    LET g == gcd[a[2], b[2]]
    IN  a[1] * (b[2] \div g) <= b[1] * (a[2] \div g)

RLe(a, b) == rle[a, b]

RLt(a, b) == ~rle[b, a]

\* min(a, b): the first argument unless the second is smaller
rmin[a \in Q, b \in Q] == IF ~rle[a, b] THEN b ELSE a

RMin(a, b) == rmin[a, b]

-----------------------------------------------------------------------------
(* Python lists, sorted(), slices, Counter and dict *)

Min(a, b) == IF a <= b THEN a ELSE b

Max(a, b) == IF a >= b THEN a ELSE b

Last(s) == s[Len(s)]

\* the function f itself, with its values computed once
Tabulate(f) == f @@ <<>>

\* the elements of a list
Range(s) == {s[i] : i \in 1..Len(s)}

\* s[lo:hi]
PySlice(s, lo, hi) ==
    LET norm(i) == IF i < 0 THEN Max(Len(s) + i, 0) ELSE Min(i, Len(s))
    IN  SubSeq(s, norm(lo) + 1, norm(hi))

RECURSIVE FlattenTo(_, _)
\* the n first lists of ss, concatenated
FlattenTo(ss, n) == IF n = 0 THEN <<>> ELSE FlattenTo(ss, n - 1) \o ss[n]

\* [x for sub in ss for x in sub]
Flatten(ss) == FlattenTo(ss, Len(ss))

RECURSIVE SumTo(_, _)
\* the sum of the n first elements of s
SumTo(s, n) == IF n = 0 THEN 0 ELSE SumTo(s, n - 1) + s[n]

\* sum(s)
SumSeq(s) == SumTo(s, Len(s))

\* sorted(s) of a list of ints: element i goes after the smaller elements and
\* after the earlier elements equal to it
SortAsc(s) ==
    LET place == Tabulate([i \in 1..Len(s) |->
                     Cardinality({j \in 1..Len(s) : s[j] < s[i]})
                     + Cardinality({j \in 1..i : s[j] = s[i]})])
    IN  [p \in 1..Len(s) |-> s[CHOOSE i \in 1..Len(s) : place[i] = p]]

\* a dict (and a Counter) is the sequence of its <<key, value>> items in insertion order
DictKeys(d) == [i \in 1..Len(d) |-> d[i][1]]

DictValues(d) == [i \in 1..Len(d) |-> d[i][2]]

HasKey(d, k) == \E i \in 1..Len(d) : d[i][1] = k

KeyIndex(d, k) == CHOOSE i \in 1..Len(d) : d[i][1] = k

\* d[k]
DictGet(d, k) == d[KeyIndex(d, k)][2]

\* d[k] = v that always adds an item
DictSetAppend(d, k, v) == Append(d, <<k, v>>)

\* d[k] = v: a new key goes last, an old key keeps its place
DictSet(d, k, v) ==
    IF HasKey(d, k) THEN [d EXCEPT ![KeyIndex(d, k)] = <<k, v>>]
    ELSE Append(d, <<k, v>>)

\* Counter(s) that counts every key once
CounterOfDistinct(s) ==
    LET firsts == SelectSeq([i \in 1..Len(s) |-> i],
                            LAMBDA i : \A j \in 1..(i - 1) : s[j] # s[i])
    IN  [p \in 1..Len(firsts) |-> <<s[firsts[p]], 1>>]

\* Counter(s), and the loop `for k in s: counter[k] += 1` on an empty Counter:
\* the keys in the order they are first met, each with the number of times it is met
CounterOf(s) ==
    LET where == Tabulate([k \in Range(s) |-> {j \in 1..Len(s) : s[j] = k}])
        first == Tabulate([k \in Range(s) |-> CHOOSE j \in where[k] : \A i \in where[k] : j <= i])
        firsts == {first[k] : k \in Range(s)}
        order == [p \in 1..Cardinality(firsts) |->
                     CHOOSE j \in firsts : Cardinality({i \in firsts : i < j}) = p - 1]
    IN  [p \in 1..Len(order) |-> <<s[order[p]], Cardinality(where[s[order[p]]])>>]

\* counter[k] of a Counter: 0 for a missing key
CounterGet(c, k) == IF HasKey(c, k) THEN DictGet(c, k) ELSE 0

\* sorted(s, key=key, reverse=True): a stable sort, so item i goes after the items
\* of larger key and after the earlier items of equal key
StableSortDesc(s, key(_)) ==
    LET k == Tabulate([i \in 1..Len(s) |-> key(s[i])])
        place == Tabulate([i \in 1..Len(s) |->
                     Cardinality({j \in 1..Len(s) : k[j] > k[i]})
                     + Cardinality({j \in 1..i : k[j] = k[i]})])
    IN  [p \in 1..Len(s) |-> s[CHOOSE i \in 1..Len(s) : place[i] = p]]

\* sorted(c.items(), key=count, reverse=True)
SortByCountDesc(c) == StableSortDesc(c, LAMBDA item : item[2])

\* Counter.most_common(n): the n first items of the stable sort by descending count
MostCommon(c, n) == PySlice(SortByCountDesc(c), 0, n)

\* [num for num, _ in counter.most_common(n)]
MostCommonKeys(c, n) == DictKeys(MostCommon(c, n))

RECURSIVE PairsFrom(_, _)
\* the pairs of positions i <= a < b of s, in lexicographic order of (a, b)
PairsFrom(s, i) ==
    IF i >= Len(s) THEN <<>>
    ELSE [j \in 1..(Len(s) - i) |-> <<s[i], s[i + j]>>] \o PairsFrom(s, i + 1)

\* itertools.combinations(s, 2), in its order
Pairs(s) == PairsFrom(s, 1)

RECURSIVE TriplesFrom(_, _)
\* the triples of positions i <= a < b < c of s, in lexicographic order of (a, b, c)
TriplesFrom(s, i) ==
    IF i + 1 >= Len(s) THEN <<>>
    ELSE LET rest == PairsFrom(s, i + 1)
         IN  [j \in 1..Len(rest) |-> <<s[i]>> \o rest[j]] \o TriplesFrom(s, i + 1)

\* itertools.combinations(s, 3), in its order
Triples(s) == TriplesFrom(s, 1)

-----------------------------------------------------------------------------
(* The rows of a group and the draws read from them *)

\* a row's Ball cells: the numbers of s, then missing cells up to NumBallCols
PadRow(s) == [c \in 1..NumBallCols |-> IF c <= Len(s) THEN s[c] ELSE NaN]

\* The rows a group is made of.  They give: full rows; rows with more than 10
\* distinct numbers between them; rows that share one number and two numbers; a
\* row with a missing cell, unsorted, that holds a number twice (the loader does
\* not reject it); a row with no cell at all.
DrawPool ==
    { PadRow(<<1, 2, 3, 4>>),
      PadRow(<<5, 6, 7, 8>>),
      PadRow(<<1, 9, 10, 11>>),
      PadRow(<<2, NaN, 1, 1>>),
      PadRow(<<>>) }

\* draw_numbers of one row: the cells that are not NaN, in column order
RowNumbers(row) == SelectSeq(row, LAMBDA cell : cell # NaN)

\* numbers_at_time / numbers_in_window: sorted(draw_numbers) of every row
ExtractDraws(rows) == [i \in 1..Len(rows) |-> SortAsc(RowNumbers(rows[i]))]

-----------------------------------------------------------------------------
(* FrequencyAggregator: analyze_exact_time_patterns_v5, lines 152-163 *)

\* number_frequency = Counter(all_numbers)
NumberFrequency(draws) == CounterOf(Flatten(draws))

\* one entry of ball_recommendations, with backup starting one rank too early
BallRecommendationOverlap(freq, b) ==
    LET top == MostCommonKeys(freq, b * 3)
    IN  [primary  |-> PySlice(top, 0, b),
         backup   |-> PySlice(top, b - 1, b * 2),
         extended |-> PySlice(top, 0, b * 3)]

\* one entry of ball_recommendations
BallRecommendation(freq, b) ==
    LET top == MostCommonKeys(freq, b * 3)
    IN  [primary  |-> PySlice(top, 0, b),
         backup   |-> PySlice(top, b, b * 2),
         extended |-> PySlice(top, 0, b * 3)]

\* ball_recommendations: ball count -> entry, for range(1, 9)
BallRecommendations(freq) == [b \in 1..MAX_BALLS |-> BallRecommendation(freq, b)]

\* hot_numbers of a slot, with ties put in ascending numeric order
HotNumbersByValue(freq) ==
    LET byValue == [i \in 1..Len(freq) |->
                       LET n == SortAsc(DictKeys(freq))[i] IN <<n, CounterGet(freq, n)>>]
    IN  MostCommonKeys(byValue, MAX_RECOMMENDATIONS)

\* hot_numbers of a slot
HotNumbers(freq) == MostCommonKeys(freq, MAX_RECOMMENDATIONS)

-----------------------------------------------------------------------------
(* ConsistencyScorer *)

\* _calculate_v5_consistency without the final min(..., 100)
CalculateV5ConsistencyNoCap(draws_list, number_frequency) ==
    IF draws_list = <<>> THEN RInt(0)
    ELSE
        LET total_draws == Len(draws_list)
            total_numbers == SumSeq([i \in 1..Len(draws_list) |-> Len(draws_list[i])])
            top_appearances == SumSeq(DictValues(MostCommon(number_frequency, CONSISTENCY_TOP)))
            consistency == IF total_numbers > 0
                           THEN RMul(Rat(top_appearances, total_numbers), RInt(100))
                           ELSE RInt(0)
            frequency_bonus == RMin(Rat(total_draws, 20), RInt(5))
        IN  RAdd(consistency, frequency_bonus)

\* _calculate_v5_consistency that takes the single most frequent number for the top ten
CalculateV5ConsistencyTopOne(draws_list, number_frequency) ==
    IF draws_list = <<>> THEN RInt(0)
    ELSE
        LET total_draws == Len(draws_list)
            total_numbers == SumSeq([i \in 1..Len(draws_list) |-> Len(draws_list[i])])
            top_appearances == SumSeq(DictValues(MostCommon(number_frequency, 1)))
            consistency == IF total_numbers > 0
                           THEN RMul(Rat(top_appearances, total_numbers), RInt(100))
                           ELSE RInt(0)
            frequency_bonus == RMin(Rat(total_draws, 20), RInt(5))
        IN  RMin(RAdd(consistency, frequency_bonus), RInt(100))

\* _calculate_v5_consistency
CalculateV5Consistency(draws_list, number_frequency) ==
    IF draws_list = <<>> THEN RInt(0)
    ELSE
        LET total_draws == Len(draws_list)
            total_numbers == SumSeq([i \in 1..Len(draws_list) |-> Len(draws_list[i])])
            top_appearances == SumSeq(DictValues(MostCommon(number_frequency, CONSISTENCY_TOP)))
            consistency == IF total_numbers > 0
                           THEN RMul(Rat(top_appearances, total_numbers), RInt(100))
                           ELSE RInt(0)
            frequency_bonus == RMin(Rat(total_draws, 20), RInt(5))
        IN  RMin(RAdd(consistency, frequency_bonus), RInt(100))

\* _calculate_window_consistency_v5 whose guard for an empty counter yields 100
CalculateWindowConsistencyV5FullWhenEmpty(draws_list) ==
    IF draws_list = <<>> THEN RInt(0)
    ELSE
        LET number_counts == CounterOf(Flatten(draws_list))
            total_draws == Len(draws_list)
            counts == DictValues(number_counts)
            very_consistent ==
                Cardinality({i \in 1..Len(counts) : RLe(Rat(total_draws * 4, 10), RInt(counts[i]))})
            somewhat_consistent ==
                Cardinality({i \in 1..Len(counts) : RLe(Rat(total_draws * 25, 100), RInt(counts[i]))})
            consistency_score ==
                IF number_counts # <<>>
                THEN RMul(Rat(very_consistent * 2 + somewhat_consistent, Len(number_counts)),
                          RInt(100))
                ELSE RInt(100)
        IN  RMin(consistency_score, RInt(100))

\* _calculate_window_consistency_v5
CalculateWindowConsistencyV5(draws_list) ==
    IF draws_list = <<>> THEN RInt(0)
    ELSE
        LET number_counts == CounterOf(Flatten(draws_list))
            total_draws == Len(draws_list)
            counts == DictValues(number_counts)
            very_consistent ==
                Cardinality({i \in 1..Len(counts) : RLe(Rat(total_draws * 4, 10), RInt(counts[i]))})
            somewhat_consistent ==
                Cardinality({i \in 1..Len(counts) : RLe(Rat(total_draws * 25, 100), RInt(counts[i]))})
            consistency_score ==
                IF number_counts # <<>>
                THEN RMul(Rat(very_consistent * 2 + somewhat_consistent, Len(number_counts)),
                          RInt(100))
                ELSE RInt(0)
        IN  RMin(consistency_score, RInt(100))

-----------------------------------------------------------------------------
(* CombinationAnalyzer *)

\* the keys one draw adds to combination_counter, in order: tuple(sorted(pair)) of
\* every pair, then tuple(sorted(triple)) of every triple of a draw of 3 or more
DrawCombinations(draw) ==
    LET pairs == Pairs(draw)
        triples == IF Len(draw) >= 3 THEN Triples(draw) ELSE <<>>
    IN  [j \in 1..Len(pairs) |-> SortAsc(pairs[j])]
        \o [j \in 1..Len(triples) |-> SortAsc(triples[j])]

\* combination_counter: every draw's combinations counted, draw after draw
CombinationCounter(draws_list) ==
    CounterOf(Flatten([i \in 1..Len(draws_list) |-> DrawCombinations(draws_list[i])]))

\* frequent_combos: a record for each combination counted at least `least` times,
\* in the counter's order; n is len(draws_list)
FrequentCombos(counter, n, least) ==
    LET kept == SelectSeq(counter, LAMBDA item : item[2] >= least)
    IN  [j \in 1..Len(kept) |->
            [numbers    |-> kept[j][1],
             frequency  |-> kept[j][2],
             percentage |-> RMul(Rat(kept[j][2], n), RInt(100))]]

\* sorted(frequent_combos, key=lambda x: x['frequency'], reverse=True)
SortByFrequencyDesc(s) == StableSortDesc(s, LAMBDA x : x.frequency)

\* _analyze_v5_combinations that keeps combinations seen once
AnalyzeV5CombinationsKeepAll(draws_list) ==
    IF Len(draws_list) < 3 THEN <<>>
    ELSE
        PySlice(SortByFrequencyDesc(
                    FrequentCombos(CombinationCounter(draws_list), Len(draws_list), 1)),
                0, MAX_COMBINATIONS)

\* _analyze_v5_combinations without the final [:10]
AnalyzeV5CombinationsNoLimit(draws_list) ==
    IF Len(draws_list) < 3 THEN <<>>
    ELSE
        SortByFrequencyDesc(
            FrequentCombos(CombinationCounter(draws_list), Len(draws_list), 2))

\* _analyze_v5_combinations
AnalyzeV5Combinations(draws_list) ==
    IF Len(draws_list) < 3 THEN <<>>
    ELSE
        PySlice(SortByFrequencyDesc(
                    FrequentCombos(CombinationCounter(draws_list), Len(draws_list), 2)),
                0, MAX_COMBINATIONS)

-----------------------------------------------------------------------------
(* MultiplierEvaluator *)

\* V5_CONFIG['MULTIPLIERS']: 3.6, 15.0, 60.0, 240.0, 1000.0, 3800.0, 12500.0, 35000.0
MULTIPLIERS ==
    <<Rat(36, 10), RInt(15), RInt(60), RInt(240),
      RInt(1000), RInt(3800), RInt(12500), RInt(35000)>>

\* _calculate_multiplier_potential that divides the sum by ball_count
CalculateMultiplierPotentialByBallCount(number_frequency, total_draws) ==
    [ball_count \in 1..MAX_BALLS |->
        LET top_numbers == MostCommonKeys(number_frequency, ball_count)
        IN  IF top_numbers # <<>>
            THEN LET avg_frequency ==
                         Rat(SumSeq([i \in 1..Len(top_numbers) |->
                                        CounterGet(number_frequency, top_numbers[i])]),
                             ball_count)
                     success_rate ==
                         IF total_draws > 0
                         THEN RMul(RDivInt(avg_frequency, total_draws), RInt(100))
                         ELSE RInt(0)
                 IN  [success_rate   |-> success_rate,
                      multiplier     |-> MULTIPLIERS[ball_count],
                      expected_value |-> RDivInt(RMul(success_rate, MULTIPLIERS[ball_count]), 100)]
            ELSE [success_rate   |-> RInt(0),
                  multiplier     |-> MULTIPLIERS[ball_count],
                  expected_value |-> RInt(0)]]

\* _calculate_multiplier_potential
CalculateMultiplierPotential(number_frequency, total_draws) ==
    [ball_count \in 1..MAX_BALLS |->
        LET top_numbers == MostCommonKeys(number_frequency, ball_count)
        IN  IF top_numbers # <<>>
            THEN LET avg_frequency ==
                         Rat(SumSeq([i \in 1..Len(top_numbers) |->
                                        CounterGet(number_frequency, top_numbers[i])]),
                             Len(top_numbers))
                     success_rate ==
                         IF total_draws > 0
                         THEN RMul(RDivInt(avg_frequency, total_draws), RInt(100))
                         ELSE RInt(0)
                 IN  [success_rate   |-> success_rate,
                      multiplier     |-> MULTIPLIERS[ball_count],
                      expected_value |-> RDivInt(RMul(success_rate, MULTIPLIERS[ball_count]), 100)]
            ELSE [success_rate   |-> RInt(0),
                  multiplier     |-> MULTIPLIERS[ball_count],
                  expected_value |-> RInt(0)]]

-----------------------------------------------------------------------------
(* Persistence tiers: _find_v5_persistent_numbers *)

\* _find_v5_persistent_numbers without the final sort
FindV5PersistentNumbersUnsorted(draws_list, frequency_counter) ==
    IF draws_list = <<>> THEN <<>>
    ELSE
        LET total_draws == Len(draws_list)
            rate(item) == Rat(item[2], total_draws)
            isVeryHigh(item) == RLe(Rat(4, 10), rate(item))
            isHigh(item) == ~isVeryHigh(item) /\ RLe(Rat(25, 100), rate(item))
            isModerate(item) ==
                ~isVeryHigh(item) /\ ~isHigh(item) /\ RLe(Rat(15, 100), rate(item))
            all_persistent == SelectSeq(frequency_counter, isVeryHigh)
                              \o SelectSeq(frequency_counter, isHigh)
                              \o SelectSeq(frequency_counter, isModerate)
        IN  DictKeys(all_persistent)

\* _find_v5_persistent_numbers
FindV5PersistentNumbers(draws_list, frequency_counter) ==
    IF draws_list = <<>> THEN <<>>
    ELSE
        LET total_draws == Len(draws_list)
            rate(item) == Rat(item[2], total_draws)
            isVeryHigh(item) == RLe(Rat(4, 10), rate(item))
            isHigh(item) == ~isVeryHigh(item) /\ RLe(Rat(25, 100), rate(item))
            isModerate(item) ==
                ~isVeryHigh(item) /\ ~isHigh(item) /\ RLe(Rat(15, 100), rate(item))
            all_persistent == SelectSeq(frequency_counter, isVeryHigh)
                              \o SelectSeq(frequency_counter, isHigh)
                              \o SelectSeq(frequency_counter, isModerate)
        IN  DictKeys(SortByCountDesc(all_persistent))

-----------------------------------------------------------------------------
(* The summaries of a group *)

\* the value analyze_exact_time_patterns_v5 stores in time_patterns[time_key]
ExactSummary(rows, corrected_time) ==
    LET numbers_at_time == ExtractDraws(rows)
        all_numbers == Flatten(numbers_at_time)
        number_frequency == NumberFrequency(numbers_at_time)
    IN  [total_draws          |-> Len(rows),
         corrected_time       |-> corrected_time,
         numbers_frequency    |-> number_frequency,
         hot_numbers          |-> HotNumbers(number_frequency),
         ball_recommendations |-> BallRecommendations(number_frequency),
         consistency_score    |-> CalculateV5Consistency(numbers_at_time, number_frequency),
         frequent_combinations |-> AnalyzeV5Combinations(numbers_at_time),
         all_draws            |-> numbers_at_time,
         average_per_draw     |-> IF numbers_at_time # <<>>
                                  THEN Rat(Len(all_numbers), Len(numbers_at_time))
                                  ELSE RInt(0),
         multiplier_potential |-> CalculateMultiplierPotential(number_frequency, Len(rows))]

\* the value analyze_time_window_patterns_v5 stores in time_window_patterns[window]
WindowSummary(rows) ==
    LET numbers_in_window == ExtractDraws(rows)
        window_frequency == NumberFrequency(numbers_in_window)
    IN  [total_draws         |-> Len(rows),
         numbers_frequency   |-> window_frequency,
         hot_numbers         |-> MostCommonKeys(window_frequency, WINDOW_HOT),
         consistency_score   |-> CalculateWindowConsistencyV5(numbers_in_window),
         all_draws           |-> numbers_in_window,
         persistent_numbers  |-> FindV5PersistentNumbers(numbers_in_window, window_frequency),
         window_combinations |-> AnalyzeV5Combinations(numbers_in_window)]

-----------------------------------------------------------------------------
(* SpecGroup: the rows of one time slot, which is also one window *)

\* the analyzer after load_and_prepare_data, before any row of the slot is read
InitGroup ==
    /\ hour = 8
    /\ minute = 3
    /\ offset = TIMING_OFFSET_MINUTES
    /\ timekey = TimeKeyOf(hour, minute)
    /\ corrected = <<ApplyTimingCorrection(hour, minute, offset)>>
    /\ window = <<CreateV5TimeWindow(hour, minute)>>
    /\ generated = <<>>
    /\ group = <<>>
    /\ helper = <<>>
    /\ time_patterns = <<>>
    /\ time_window_patterns = <<>>
    /\ optimal_times = <<>>
    /\ confidence = <<>>
    /\ NoAnalyzer

\* pd.read_csv reads one more row of the slot
AddDraw ==
    /\ Len(group) < MaxDraws
    /\ helper = <<>>
    /\ time_patterns = <<>>
    /\ time_window_patterns = <<>>
    /\ \E r \in DrawPool :
        /\ Len(group) >= MaxVaried => r = Last(group)
        /\ group' = Append(group, r)
    /\ UNCHANGED <<clockVars, adviceVars, analyzerVars, helper, time_patterns, time_window_patterns>>

\* the scoring helpers called on the draws of the group, whatever its size,
\* on an analyzer that has not run its analysis
CallHelpers ==
    /\ helper = <<>>
    /\ time_patterns = <<>>
    /\ time_window_patterns = <<>>
    /\ LET draws_list == ExtractDraws(group)
           frequency == NumberFrequency(draws_list)
       IN  helper' = << [consistency |-> CalculateV5Consistency(draws_list, frequency),
                         window_consistency |-> CalculateWindowConsistencyV5(draws_list),
                         combinations |-> AnalyzeV5Combinations(draws_list),
                         multiplier |->
                             CalculateMultiplierPotential(frequency, Len(draws_list)),
                         persistent |->
                             FindV5PersistentNumbers(draws_list, frequency)] >>
    /\ UNCHANGED <<clockVars, adviceVars, analyzerVars, group, time_patterns, time_window_patterns>>

\* analyze_exact_time_patterns_v5 on a data frame that holds this one slot
AnalyzeExactTimePatternsV5 ==
    /\ helper = <<>>
    /\ time_patterns' =
           IF Len(group) >= MIN_DRAWS_FOR_ANALYSIS
           THEN DictSet(time_patterns, timekey, ExactSummary(group, corrected[1]))
           ELSE time_patterns
    /\ UNCHANGED <<clockVars, adviceVars, analyzerVars, group, helper, time_window_patterns>>

\* analyze_time_window_patterns_v5 on a data frame that holds this one window
AnalyzeTimeWindowPatternsV5 ==
    /\ helper = <<>>
    /\ time_window_patterns' =
           IF Len(group) >= WINDOW_MIN_DRAWS
           THEN DictSet(time_window_patterns, window[1], WindowSummary(group))
           ELSE time_window_patterns
    /\ UNCHANGED <<clockVars, adviceVars, analyzerVars, group, helper, time_patterns>>

NextGroup ==
    \/ AddDraw
    \/ CallHelpers
    \/ AnalyzeExactTimePatternsV5
    \/ AnalyzeTimeWindowPatternsV5

SpecGroup == InitGroup /\ [][NextGroup]_vars

-----------------------------------------------------------------------------
(* Properties of SpecGroup *)

\* the summaries built so far, slot summaries first
Summaries == DictValues(time_patterns) \o DictValues(time_window_patterns)

\* the number of Ball cells of the rows that hold no number
MissingCells(rows) ==
    Cardinality({ic \in (1..Len(rows)) \X (1..NumBallCols) : rows[ic[1]][ic[2]] = NaN})

InRange100(x) == RLe(RInt(0), x) /\ RLe(x, RInt(100))

\* C4: for every list of draws, the empty list and lists of empty draws included,
\* the exact-time consistency score and the window consistency score are in [0, 100].
C4_ScoresInRange ==
    /\ helper # <<>> =>
           /\ InRange100(helper[1].consistency)
           /\ InRange100(helper[1].window_consistency)
    /\ \A i \in 1..Len(Summaries) : InRange100(Summaries[i].consistency_score)

\* both scores at the cap, on a group that is not empty
C4_Witness ==
    /\ helper # <<>>
    /\ group # <<>>
    /\ helper[1].consistency = RInt(100)
    /\ helper[1].window_consistency = RInt(100)

\* the exact-time consistency score of the group's draws with the draw of row r added
ConsistencyWith(r) ==
    LET more == ExtractDraws(Append(group, r))
    IN  CalculateV5Consistency(more, NumberFrequency(more))

\* the 10 most frequent numbers of the draws
TopTen(draws) == Range(MostCommonKeys(NumberFrequency(draws), CONSISTENCY_TOP))

\* C5 (as stated): adding a draw that holds at least one of the group's 10 most
\* frequent numbers never lowers the exact-time consistency score.
C5_OneHotNumberNeverLowers ==
    helper # <<>> =>
        LET hot == TopTen(ExtractDraws(group))
        IN  \A r \in DrawPool :
                (Range(RowNumbers(r)) \cap hot # {})
                    => RLe(helper[1].consistency, ConsistencyWith(r))

\* C5 (amended): adding a draw all of whose numbers are among the group's 10 most
\* frequent numbers never lowers the exact-time consistency score.
C5_AllHotNumbersNeverLowers ==
    helper # <<>> =>
        LET hot == TopTen(ExtractDraws(group))
        IN  \A r \in DrawPool :
                (Range(RowNumbers(r)) \subseteq hot)
                    => RLe(helper[1].consistency, ConsistencyWith(r))

\* a group of more than 10 distinct numbers, and a draw of hot numbers only that
\* raises its score
C5_Witness ==
    /\ helper # <<>>
    /\ Len(NumberFrequency(ExtractDraws(group))) > CONSISTENCY_TOP
    /\ \E r \in DrawPool :
        /\ RowNumbers(r) # <<>>
        /\ Range(RowNumbers(r)) \subseteq TopTen(ExtractDraws(group))
        /\ RLt(helper[1].consistency, ConsistencyWith(r))

\* the position at which each number of the draws is first met when the draws
\* are read in order
FirstSeen(draws) ==
    LET all == Flatten(draws)
    IN  [n \in Range(all) |->
            CHOOSE i \in 1..Len(all) : all[i] = n /\ \A j \in 1..(i - 1) : all[j] # n]

\* the count of each number of a number frequency
CountOf(freq) == Tabulate([n \in Range(DictKeys(freq)) |-> DictGet(freq, n)])

\* C8 (as stated): the hot numbers of a slot are in descending order of count and,
\* among numbers of equal count, in ascending numeric order.
C8_CountThenValue ==
    \A e \in Range(DictValues(time_patterns)) :
        LET hot == e.hot_numbers
            count == CountOf(e.numbers_frequency)
        IN  \A i, j \in 1..Len(hot) :
                i < j => \/ count[hot[i]] > count[hot[j]]
                         \/ count[hot[i]] = count[hot[j]] /\ hot[i] < hot[j]

\* C8 (amended): the hot numbers of a slot are its MAX_RECOMMENDATIONS first numbers
\* in descending order of count and, among numbers of equal count, in the order in
\* which the numbers are first met in the slot's draws (rows in file order, each
\* draw in ascending order).
C8_CountThenFirstSeen ==
    \A e \in Range(DictValues(time_patterns)) :
        LET hot == e.hot_numbers
            count == CountOf(e.numbers_frequency)
            seen == FirstSeen(e.all_draws)
            before(m, n) == \/ count[m] > count[n]
                            \/ count[m] = count[n] /\ seen[m] < seen[n]
        IN  /\ Range(hot) \subseteq DOMAIN count
            /\ Len(hot) = Min(MAX_RECOMMENDATIONS, Len(e.numbers_frequency))
            /\ \A i, j \in 1..Len(hot) : i < j => before(hot[i], hot[j])
            /\ \A n \in DOMAIN count \ Range(hot) :
                   \A i \in 1..Len(hot) : before(hot[i], n)

\* a slot whose hot numbers hold two numbers of equal count, the larger first
C8_Witness ==
    \E e \in Range(DictValues(time_patterns)) :
        \E i, j \in 1..Len(e.hot_numbers) :
            /\ i < j
            /\ DictGet(e.numbers_frequency, e.hot_numbers[i])
                   = DictGet(e.numbers_frequency, e.hot_numbers[j])
            /\ e.hot_numbers[i] > e.hot_numbers[j]

\* C9: for every slot summary and every ball count b in 1..8, extended is the 3b
\* first numbers of one ranking of the slot's numbers by descending count, primary
\* is its b first numbers and backup the numbers at ranks b+1..2b, each cut short
\* only when the slot has too few distinct numbers; so primary and backup are
\* disjoint and primary followed by backup is a prefix of extended.
C9_RankSlices ==
    \A e \in Range(DictValues(time_patterns)) :
        LET count == CountOf(e.numbers_frequency)
            numbers == DOMAIN count
            rec(b) == e.ball_recommendations[b]
        IN  /\ DOMAIN e.ball_recommendations = 1..8
            /\ \A b \in 1..8 :
                LET extended == rec(b).extended
                    size == Len(extended)
                IN  /\ size = Min(3 * b, Cardinality(numbers))
                    /\ Range(extended) \subseteq numbers
                    /\ \A i, j \in 1..size :
                           i < j => /\ extended[i] # extended[j]
                                    /\ count[extended[i]] >= count[extended[j]]
                    /\ \A n \in numbers \ Range(extended) :
                           count[n] <= count[extended[size]]
                    /\ rec(b).primary = SubSeq(extended, 1, Min(b, size))
                    /\ rec(b).backup = SubSeq(extended, b + 1, Min(2 * b, size))
                    /\ Range(rec(b).primary) \cap Range(rec(b).backup) = {}
                    /\ rec(b).primary \o rec(b).backup
                           = SubSeq(extended, 1, Len(rec(b).primary) + Len(rec(b).backup))
                    /\ b < 8 => extended = SubSeq(rec(b + 1).extended, 1, size)

\* a slot of 11 distinct numbers: the lists for 3 balls are whole, those for 8
\* balls are cut short
C9_Witness ==
    \E e \in Range(DictValues(time_patterns)) :
        /\ Len(e.numbers_frequency) = 11
        /\ Len(e.ball_recommendations[3].backup) = 3
        /\ Len(e.ball_recommendations[3].extended) = 9
        /\ Len(e.ball_recommendations[8].backup) = 3
        /\ Len(e.ball_recommendations[8].extended) = 11

\* the ways of picking k positions of a list of n, in increasing order
IncreasingPositions ==
    [n \in 0..NumBallCols, k \in {2, 3} |->
        {p \in [1..k -> 1..n] : \A a, b \in 1..k : a < b => p[a] < p[b]}]

\* the number of ways the tuple c is formed from positions of the sorted draw
TimesFormedIn(draw, c) ==
    Cardinality({p \in IncreasingPositions[Len(draw), Len(c)] :
                    [k \in 1..Len(c) |-> draw[p[k]]] = c})

\* the number of times c is formed over all the draws
TimesFormed(draws, c) == SumSeq([i \in 1..Len(draws) |-> TimesFormedIn(draws[i], c)])

\* the number of draws that contain every number of c
DrawsContaining(draws, c) ==
    Cardinality({i \in 1..Len(draws) : Range(c) \subseteq Range(draws[i])})

\* the 2- and 3-tuples formed from some draw
FormedCombinations(draws) ==
    UNION {{[k \in 1..size |-> draws[i][p[k]]] : p \in IncreasingPositions[Len(draws[i]), size]} :
               i \in 1..Len(draws), size \in {2, 3}}

DistinctNumbers(draw) == Cardinality(Range(draw)) = Len(draw)

LexLess(a, b) ==
    \/ \E i \in 1..Min(Len(a), Len(b)) :
           a[i] < b[i] /\ \A k \in 1..(i - 1) : a[k] = b[k]
    \/ Len(a) < Len(b) /\ \A k \in 1..Len(a) : a[k] = b[k]

Reverse(s) == [i \in 1..Len(s) |-> s[Len(s) + 1 - i]]

\* the tuples formed from one sorted draw, each with the number of times it is formed
CombinationsOf(draw) ==
    LET formed(size) == {[k \in 1..size |-> draw[p[k]]] :
                             p \in IncreasingPositions[Len(draw), size]}
        tuples == formed(2) \cup formed(3)
    IN  Tabulate([c \in tuples |-> TimesFormedIn(draw, c)])

\* for each tuple formed from the draws: the number of times it is formed and
\* the first draw it is formed from
FormedStats(draws) ==
    LET per == Tabulate([i \in 1..Len(draws) |-> CombinationsOf(draws[i])])
        from(c) == {i \in 1..Len(draws) : c \in DOMAIN per[i]}
    IN  Tabulate([c \in UNION {DOMAIN per[i] : i \in 1..Len(draws)} |->
            [count |-> SumSeq([i \in 1..Len(draws) |->
                                  IF c \in DOMAIN per[i] THEN per[i][c] ELSE 0]),
             first |-> CHOOSE i \in from(c) : \A k \in from(c) : i <= k]])

\* C11 (as stated): the emitted combination list has at most 10 entries, is in
\* descending order of count with equal counts in lexicographic order of the
\* tuples, no omitted combination of count >= 2 precedes an emitted one in that
\* order, and the list is the same when the draws are taken in reverse order.
C11_CountThenLexicographic ==
    helper # <<>> =>
        LET draws == ExtractDraws(group)
            combos == helper[1].combinations
            stats == FormedStats(draws)
            emitted == {combos[j].numbers : j \in 1..Len(combos)}
            before(a, b) == \/ stats[a].count > stats[b].count
                            \/ stats[a].count = stats[b].count /\ LexLess(a, b)
        IN  /\ Len(combos) <= MAX_COMBINATIONS
            /\ \A i, j \in 1..Len(combos) :
                   i < j => before(combos[i].numbers, combos[j].numbers)
            /\ \A c \in DOMAIN stats \ emitted :
                   stats[c].count >= 2 => \A a \in emitted : ~before(c, a)
            /\ AnalyzeV5Combinations(Reverse(draws)) = combos

\* C11 (amended): for a group of 3 draws or more, the emitted list holds the
\* MAX_COMBINATIONS first (all, if fewer) of the tuples formed at least twice,
\* each once, in descending order of count and, among equal counts, in the order
\* in which the tuples are first formed: by first draw in file order, in one draw
\* pairs before triples, and among tuples of one size of one draw in lexicographic
\* order; no omitted tuple formed at least twice precedes an emitted one in that
\* order.
C11_CountThenFirstFormed ==
    (helper # <<>> /\ Len(group) >= 3) =>
        LET draws == ExtractDraws(group)
            combos == helper[1].combinations
            stats == FormedStats(draws)
            frequent == {c \in DOMAIN stats : stats[c].count >= 2}
            emitted == {combos[j].numbers : j \in 1..Len(combos)}
            earlier(a, b) == \/ stats[a].first < stats[b].first
                             \/ stats[a].first = stats[b].first /\ Len(a) < Len(b)
                             \/ stats[a].first = stats[b].first /\ Len(a) = Len(b) /\ LexLess(a, b)
            before(a, b) == \/ stats[a].count > stats[b].count
                            \/ stats[a].count = stats[b].count /\ earlier(a, b)
        IN  /\ Len(combos) = Min(MAX_COMBINATIONS, Cardinality(frequent))
            /\ emitted \subseteq frequent
            /\ \A j \in 1..Len(combos) : combos[j].frequency = stats[combos[j].numbers].count
            /\ \A i, j \in 1..Len(combos) :
                   i < j => before(combos[i].numbers, combos[j].numbers)
            /\ \A c \in frequent \ emitted : \A a \in emitted : before(a, c)

\* a full list that leaves out a tuple formed at least twice, holds two tuples of
\* equal count with the lexicographically larger first, and changes when the draws
\* are reversed
C11_Witness ==
    /\ helper # <<>>
    /\ Len(helper[1].combinations) = MAX_COMBINATIONS
    /\ LET draws == ExtractDraws(group)
           combos == helper[1].combinations
           stats == FormedStats(draws)
       IN  /\ \E c \in DOMAIN stats :
                  stats[c].count >= 2 /\ \A j \in 1..Len(combos) : combos[j].numbers # c
           /\ \E i, j \in 1..Len(combos) :
                  /\ i < j
                  /\ combos[i].frequency = combos[j].frequency
                  /\ LexLess(combos[j].numbers, combos[i].numbers)
           /\ AnalyzeV5Combinations(Reverse(draws)) # combos

\* the persistence lists computed so far, each with the counts and the number of
\* draws it was computed from
PersistenceLists ==
    [i \in 1..Len(time_window_patterns) |->
        [list  |-> time_window_patterns[i][2].persistent_numbers,
         count |-> CountOf(time_window_patterns[i][2].numbers_frequency),
         draws |-> time_window_patterns[i][2].total_draws]]
    \o (IF helper = <<>> THEN <<>>
        ELSE << [list  |-> helper[1].persistent,
                 count |-> CountOf(NumberFrequency(ExtractDraws(group))),
                 draws |-> Len(group)] >>)

\* the tier of a count among `draws` draws: 3 for a rate of 0.40 or more, 2 for
\* 0.25 or more, 1 for 0.15 or more, else 0
PersistenceTier(count, draws) ==
    IF 100 * count >= 40 * draws THEN 3
    ELSE IF 100 * count >= 25 * draws THEN 2
    ELSE IF 100 * count >= 15 * draws THEN 1
    ELSE 0

\* C18: in the persistence list of a window, each number of appearance rate
\* >= 0.15 is present once and no other number is present; a number of a higher
\* tier precedes every number of a lower tier; within a tier the numbers are in
\* descending order of count.
C18_TiersThenCount ==
    LET lists == PersistenceLists
    IN  \A k \in 1..Len(lists) :
            LET list == lists[k].list
                count == lists[k].count
                tier == Tabulate([n \in DOMAIN count |->
                                     PersistenceTier(count[n], lists[k].draws)])
            IN  /\ Range(list) = {n \in DOMAIN count : tier[n] >= 1}
                /\ Len(list) = Cardinality(Range(list))
                /\ \A i, j \in 1..Len(list) :
                       i < j => /\ tier[list[i]] >= tier[list[j]]
                                /\ tier[list[i]] = tier[list[j]]
                                       => count[list[i]] >= count[list[j]]

\* a list with numbers of the three tiers, two numbers of one tier with different
\* counts
C18_Witness ==
    LET lists == PersistenceLists
    IN  \E k \in 1..Len(lists) :
            LET list == lists[k].list
                count == lists[k].count
                tier(n) == PersistenceTier(count[n], lists[k].draws)
            IN  /\ {tier(n) : n \in Range(list)} = {1, 2, 3}
                /\ \E m, n \in Range(list) : tier(m) = tier(n) /\ count[m] # count[n]

ZeroObservations(draws) == \A i \in 1..Len(draws) : draws[i] = <<>>

\* C19 (as stated): for a group with zero draws or with zero observed numbers the
\* exact-time consistency score, the window consistency score, every combination
\* percentage and every multiplier success rate are 0.
C19_ZeroYieldsZero ==
    (helper # <<>> /\ ZeroObservations(ExtractDraws(group))) =>
        /\ helper[1].consistency = RInt(0)
        /\ helper[1].window_consistency = RInt(0)
        /\ \A j \in 1..Len(helper[1].combinations) :
               helper[1].combinations[j].percentage = RInt(0)
        /\ \A b \in 1..MAX_BALLS : helper[1].multiplier[b].success_rate = RInt(0)

\* C19 (amended): for a group with zero draws every score is 0; for a group of
\* draws with zero observed numbers the window consistency score and every
\* multiplier success rate are 0, no combination is emitted, and the exact-time
\* consistency score is the frequency bonus min(draws / 20, 5) alone.
C19_ZeroYieldsBonus ==
    (helper # <<>> /\ ZeroObservations(ExtractDraws(group))) =>
        /\ helper[1].consistency = RMin(Rat(Len(group), 20), RInt(5))
        /\ group = <<>> => helper[1].consistency = RInt(0)
        /\ helper[1].window_consistency = RInt(0)
        /\ helper[1].combinations = <<>>
        /\ \A b \in 1..MAX_BALLS :
               /\ helper[1].multiplier[b].success_rate = RInt(0)
               /\ helper[1].multiplier[b].expected_value = RInt(0)

\* the helpers called on a group of MIN_DRAWS_FOR_ANALYSIS draws or more that hold
\* no number: the exact-time score is not 0
C19_Witness ==
    /\ helper # <<>>
    /\ Len(group) >= MIN_DRAWS_FOR_ANALYSIS
    /\ ZeroObservations(ExtractDraws(group))
    /\ RLt(RInt(0), helper[1].consistency)
    /\ helper[1].window_consistency = RInt(0)

\* the counts of a frequency counter, largest first
CountsDescending(freq) ==
    LET up == SortAsc(DictValues(freq))
    IN  [p \in 1..Len(up) |-> up[Len(up) + 1 - p]]

\* 100 * (mean of the b largest counts, or of all counts when there are fewer
\* than b) / draws; 0 when there is no count
StatedSuccessRate(counts, b, draws) ==
    LET k == Min(b, Len(counts))
    IN  IF k = 0 \/ draws = 0 THEN RInt(0)
        ELSE Rat(100 * SumSeq(SubSeq(counts, 1, k)), k * draws)

\* C22: for a group whose every draw holds distinct numbers, the multiplier
\* evaluator gives an entry for each ball count b of 1..8: its success_rate is
\* 100 * (mean count of the b most frequent numbers) / total draws (0 for a group
\* without a number), it never grows with b and never exceeds 100, and its
\* expected_value is success_rate * multiplier[b] / 100.
C22_SuccessRateOfTopNumbers ==
    (/\ helper # <<>>
     /\ \A i \in 1..Len(group) : DistinctNumbers(RowNumbers(group[i]))) =>
        LET potential == helper[1].multiplier
            draws == ExtractDraws(group)
            counts == CountsDescending(NumberFrequency(draws))
        IN  /\ DOMAIN potential = 1..8
            /\ \A b \in 1..8 :
                   /\ potential[b].success_rate = StatedSuccessRate(counts, b, Len(group))
                   /\ RLe(potential[b].success_rate, RInt(100))
                   /\ b > 1 => RLe(potential[b].success_rate, potential[b - 1].success_rate)
                   /\ potential[b].multiplier = MULTIPLIERS[b]
                   /\ potential[b].expected_value
                          = RDivInt(RMul(potential[b].success_rate, MULTIPLIERS[b]), 100)

\* a group of at least 5 draws of distinct numbers, with more than 8 numbers
\* between them, and rates that fall from 1 ball to 4 and from 4 to 8
C22_Witness ==
    /\ helper # <<>>
    /\ Len(group) >= MIN_DRAWS_FOR_ANALYSIS
    /\ \A i \in 1..Len(group) : DistinctNumbers(RowNumbers(group[i]))
    /\ Len(NumberFrequency(ExtractDraws(group))) > MAX_BALLS
    /\ RLt(helper[1].multiplier[8].success_rate, helper[1].multiplier[4].success_rate)
    /\ RLt(helper[1].multiplier[4].success_rate, helper[1].multiplier[1].success_rate)

-----------------------------------------------------------------------------
(* SpecConfidence: _calculate_v5_confidence on slot summaries and rankings *)

\* V5_CONFIG['CONFIDENCE_FACTORS']
BASE_CONFIDENCE == 50

DRAW_MULTIPLIER == Rat(15, 10)

CONSISTENCY_MULTIPLIER == Rat(4, 10)

COMBINATION_MULTIPLIER == Rat(20, 10)

MAX_CONFIDENCE == 95

\* the cap of draw_boost
MAX_DRAW_BOOST == 25

TIMING_BOOST == 5

OPTIMAL_BOOST == 10

\* the number of ranked times that get optimal_boost
TOP_TIMES == 5

\* the sum of the boosts, not cut at MAX_CONFIDENCE
CalculateV5ConfidenceNoMax(pattern_data, time_key, ranking) ==
    LET base == RInt(BASE_CONFIDENCE)
        draw_boost == RMin(RMul(RInt(pattern_data.total_draws), DRAW_MULTIPLIER),
                           RInt(MAX_DRAW_BOOST))
        consistency_boost == RMul(pattern_data.consistency_score, CONSISTENCY_MULTIPLIER)
        combo_boost == RMul(RInt(Len(pattern_data.frequent_combinations)),
                            COMBINATION_MULTIPLIER)
        timing_boost == IF pattern_data.corrected_time # time_key THEN TIMING_BOOST ELSE 0
        optimal_boost == IF time_key \in Range(PySlice(DictKeys(ranking), 0, TOP_TIMES))
                         THEN OPTIMAL_BOOST ELSE 0
    IN  RAdd(RAdd(RAdd(RAdd(RAdd(base, draw_boost), consistency_boost), combo_boost),
                  RInt(timing_boost)), RInt(optimal_boost))

\* _calculate_v5_confidence(pattern_data, time_key), ranking being self.optimal_times
CalculateV5Confidence(pattern_data, time_key, ranking) ==
    LET base == RInt(BASE_CONFIDENCE)
        draw_boost == RMin(RMul(RInt(pattern_data.total_draws), DRAW_MULTIPLIER),
                           RInt(MAX_DRAW_BOOST))
        consistency_boost == RMul(pattern_data.consistency_score, CONSISTENCY_MULTIPLIER)
        combo_boost == RMul(RInt(Len(pattern_data.frequent_combinations)),
                            COMBINATION_MULTIPLIER)
        timing_boost == IF pattern_data.corrected_time # time_key THEN TIMING_BOOST ELSE 0
        optimal_boost == IF time_key \in Range(PySlice(DictKeys(ranking), 0, TOP_TIMES))
                         THEN OPTIMAL_BOOST ELSE 0
        total_confidence ==
            RAdd(RAdd(RAdd(RAdd(RAdd(base, draw_boost), consistency_boost), combo_boost),
                      RInt(timing_boost)), RInt(optimal_boost))
    IN  RMin(total_confidence, RInt(MAX_CONFIDENCE))

\* the minute of slot i: the slots are 5 minutes apart, the first at InitGroup's time
SlotMinute(i) == 3 + 5 * (i - 1)

SlotKey(i) == TimeKeyOf(8, SlotMinute(i))

\* the groups of the first slot: 5 or MaxDraws rows, two of one kind then the rest
\* of another
ConfidenceGroups ==
    {[i \in 1..n |-> IF i <= 2 THEN a ELSE b] :
         a \in DrawPool, b \in DrawPool, n \in {MIN_DRAWS_FOR_ANALYSIS, MaxDraws}}

\* the group of every other slot
FillerGroup == [i \in 1..MIN_DRAWS_FOR_ANALYSIS |-> PadRow(<<1, 2, 3, 4>>)]

\* time_patterns of n slots, in groupby's order of the keys
SlotPatterns(rows, n) ==
    [i \in 1..n |->
        <<SlotKey(i),
          ExactSummary(IF i = 1 THEN rows ELSE FillerGroup,
                       ApplyTimingCorrection(8, SlotMinute(i), TIMING_OFFSET_MINUTES))>>]

\* optimal_times that ranks the slots of patterns in the given order; of an entry
\* the model keeps the fields copied from the summary
RankedTimes(patterns, order) ==
    [p \in 1..Len(order) |->
        <<patterns[order[p]][1],
          [total_draws    |-> patterns[order[p]][2].total_draws,
           corrected_time |-> patterns[order[p]][2].corrected_time]>>]

\* the analyzer after the analysis of 1, MaxSlots - 1 or MaxSlots slots, with the
\* ranking not made yet (empty) or made and the first slot ranked first or last
InitConfidence ==
    /\ hour = 8
    /\ minute = 3
    /\ offset = TIMING_OFFSET_MINUTES
    /\ timekey = TimeKeyOf(hour, minute)
    /\ corrected = <<ApplyTimingCorrection(hour, minute, offset)>>
    /\ window = <<CreateV5TimeWindow(hour, minute)>>
    /\ generated = <<>>
    /\ group \in ConfidenceGroups
    /\ helper = <<>>
    /\ \E n \in {1, MaxSlots - 1, MaxSlots} :
        /\ time_patterns = SlotPatterns(group, n)
        /\ optimal_times \in
               { <<>>,
                 RankedTimes(time_patterns, [p \in 1..n |-> p]),
                 RankedTimes(time_patterns, [p \in 1..n |-> IF p = n THEN 1 ELSE p + 1]) }
    /\ time_window_patterns = <<>>
    /\ confidence = <<>>
    /\ NoAnalyzer

\* confidence = self._calculate_v5_confidence(pattern_data, time_key), for a time
\* key of time_patterns
CalculateConfidenceStep ==
    /\ confidence = <<>>
    /\ \E time_key \in Range(DictKeys(time_patterns)) :
        confidence' =
            << [time_key |-> time_key,
                level    |-> CalculateV5Confidence(DictGet(time_patterns, time_key),
                                                   time_key, optimal_times)] >>
    /\ UNCHANGED <<clockVars, groupVars, analyzerVars, optimal_times>>

NextConfidence == CalculateConfidenceStep

SpecConfidence == InitConfidence /\ [][NextConfidence]_vars

\* C3: for every slot summary and every state of the ranking (empty, or holding
\* the slot inside or outside the five first), the confidence is in [50, 95].
C3_ConfidenceInRange ==
    confidence # <<>> =>
        /\ RLe(RInt(50), confidence[1].level)
        /\ RLe(confidence[1].level, RInt(95))

\* the first slot, ranked among the five first, with boosts that sum to more
\* than 95
C3_Witness ==
    /\ confidence # <<>>
    /\ confidence[1].time_key = timekey
    /\ timekey \in Range(PySlice(DictKeys(optimal_times), 0, TOP_TIMES))
    /\ Len(optimal_times) = MaxSlots
    /\ confidence[1].level = RInt(95)

-----------------------------------------------------------------------------
(* SpecStrategy: _generate_v5_strategies on confidence levels and ball counts *)

\* confidence levels are tried in steps of 1 / ConfidenceSteps
ConfidenceSteps == 2

HIGH_CONFIDENCE == 85

GOOD_CONFIDENCE == 75

MODERATE_CONFIDENCE == 65

\* int(ball_count * tenths / 10): a float product cut towards zero
IntOfTenths(ball_count, tenths) ==
    IF ball_count >= 0 THEN (ball_count * tenths) \div 10
    ELSE 0 - ((0 - ball_count) * tenths) \div 10

\* V5_CONFIG['MULTIPLIERS'].get(ball_count, 0)
MultiplierOf(ball_count) ==
    IF ball_count \in DOMAIN MULTIPLIERS THEN MULTIPLIERS[ball_count] ELSE RInt(0)

\* the first string of each tier, lowest tier first
Headline ==
    << "LOW CONFIDENCE - Wait for optimal time window",
       "MODERATE CONFIDENCE - Consider {} balls",
       "GOOD PATTERNS - {} balls at {}x multiplier",
       "HIGH CONFIDENCE - Play {} balls for {}x potential" >>

\* _generate_v5_strategies whose second test repeats the first threshold
GenerateV5StrategiesNoGood(confidence_level, ball_count) ==
    LET multiplier == MultiplierOf(ball_count)
        expected(lo, hi) == <<"Expected: {}-{} numbers to hit", lo, hi>>
    IN  IF RLe(RInt(HIGH_CONFIDENCE), confidence_level)
        THEN << <<Headline[4], ball_count, multiplier>>,
                <<"Timing corrected for optimal hit rate">>,
                expected(Max(1, IntOfTenths(ball_count, 6)), ball_count),
                <<"Consider increasing ball count for higher multiplier">> >>
        ELSE IF RLe(RInt(HIGH_CONFIDENCE), confidence_level)
        THEN << <<Headline[3], ball_count, multiplier>>,
                <<"Timing correction applied for better accuracy">>,
                expected(Max(1, IntOfTenths(ball_count, 4)),
                         Max(1, IntOfTenths(ball_count, 7))),
                <<"Solid play with moderate risk">> >>
        ELSE IF RLe(RInt(MODERATE_CONFIDENCE), confidence_level)
        THEN << <<Headline[2], Max(1, ball_count - 1)>>,
                <<"Conservative approach recommended">>,
                expected(Max(1, IntOfTenths(ball_count, 3)),
                         Max(1, IntOfTenths(ball_count, 5))),
                <<"Consider waiting for higher confidence time">> >>
        ELSE << <<Headline[1]>>,
                <<"High risk play - reduce to {} balls if playing", Max(1, ball_count - 2)>>,
                <<"Limited historical data for reliable prediction">>,
                <<"Check for better time slots in optimal times list">> >>

\* _generate_v5_strategies(pattern_data, confidence, ball_count): four strings,
\* each kept as its text followed by the values formatted into it
GenerateV5Strategies(confidence_level, ball_count) ==
    LET multiplier == MultiplierOf(ball_count)
        expected(lo, hi) == <<"Expected: {}-{} numbers to hit", lo, hi>>
    IN  IF RLe(RInt(HIGH_CONFIDENCE), confidence_level)
        THEN << <<Headline[4], ball_count, multiplier>>,
                <<"Timing corrected for optimal hit rate">>,
                expected(Max(1, IntOfTenths(ball_count, 6)), ball_count),
                <<"Consider increasing ball count for higher multiplier">> >>
        ELSE IF RLe(RInt(GOOD_CONFIDENCE), confidence_level)
        THEN << <<Headline[3], ball_count, multiplier>>,
                <<"Timing correction applied for better accuracy">>,
                expected(Max(1, IntOfTenths(ball_count, 4)),
                         Max(1, IntOfTenths(ball_count, 7))),
                <<"Solid play with moderate risk">> >>
        ELSE IF RLe(RInt(MODERATE_CONFIDENCE), confidence_level)
        THEN << <<Headline[2], Max(1, ball_count - 1)>>,
                <<"Conservative approach recommended">>,
                expected(Max(1, IntOfTenths(ball_count, 3)),
                         Max(1, IntOfTenths(ball_count, 5))),
                <<"Consider waiting for higher confidence time">> >>
        ELSE << <<Headline[1]>>,
                <<"High risk play - reduce to {} balls if playing", Max(1, ball_count - 2)>>,
                <<"Limited historical data for reliable prediction">>,
                <<"Check for better time slots in optimal times list">> >>

\* the confidence levels of [BASE_CONFIDENCE, MAX_CONFIDENCE] that are tried
ConfidenceLevels ==
    {Rat(k, ConfidenceSteps) :
         k \in (BASE_CONFIDENCE * ConfidenceSteps)..(MAX_CONFIDENCE * ConfidenceSteps)}

\* the ball counts passed to the generator: 1..8 and one count on each side
StrategyBallCounts == ((0 - 1)..(MAX_BALLS + 1)) \ {0}

\* a confidence level has been computed
InitStrategy ==
    /\ hour = 8
    /\ minute = 3
    /\ offset = TIMING_OFFSET_MINUTES
    /\ timekey = TimeKeyOf(hour, minute)
    /\ corrected = <<ApplyTimingCorrection(hour, minute, offset)>>
    /\ window = <<CreateV5TimeWindow(hour, minute)>>
    /\ generated = <<>>
    /\ group = <<>>
    /\ helper = <<>>
    /\ time_patterns = <<>>
    /\ time_window_patterns = <<>>
    /\ optimal_times = <<>>
    /\ \E level \in ConfidenceLevels :
           confidence = << [time_key |-> timekey, level |-> level] >>
    /\ df = <<>>
    /\ runs = NoRuns
    /\ exported = <<>>
    /\ returned = <<>>
    /\ pipeline = NoPipeline

\* strategies = self._generate_v5_strategies(pattern_data, confidence, ball_count)
GenerateStrategiesStep ==
    /\ returned = <<>>
    /\ \E ball_count \in StrategyBallCounts :
           returned' = << [call       |-> "_generate_v5_strategies",
                           ball_count |-> ball_count,
                           value      |-> GenerateV5Strategies(confidence[1].level,
                                                               ball_count)] >>
    /\ UNCHANGED <<clockVars, groupVars, adviceVars, df, runs, exported, pipeline>>

NextStrategy == GenerateStrategiesStep

SpecStrategy == InitStrategy /\ [][NextStrategy]_vars

\* the tiers whose first string is among the strategies
TiersOf(strategies) ==
    {t \in DOMAIN Headline : \E i \in DOMAIN strategies : strategies[i][1] = Headline[t]}

\* the tier the thresholds give: 4 HIGH, 3 GOOD, 2 MODERATE, 1 LOW
TierFor(level) ==
    IF RLe(RInt(85), level) THEN 4
    ELSE IF RLe(RInt(75), level) THEN 3
    ELSE IF RLe(RInt(65), level) THEN 2
    ELSE 1

\* C17: for every confidence level in [50, 95] and every ball count the strategies
\* are those of exactly one tier, HIGH from 85, GOOD from 75, MODERATE from 65,
\* else LOW, and a higher level never gives a lower tier.
C17_OneTierByThreshold ==
    returned # <<>> =>
        LET level == confidence[1].level
            strategies == returned[1].value
        IN  /\ TiersOf(strategies) = {TierFor(level)}
            /\ Len(strategies) = 4
            /\ \A higher \in ConfidenceLevels :
                   RLe(level, higher) =>
                       \A t \in TiersOf(GenerateV5Strategies(higher, returned[1].ball_count)) :
                           t >= TierFor(level)

\* the strategies of a level at a threshold and of the level just below it
C17_Witness ==
    /\ returned # <<>>
    /\ confidence[1].level = RInt(GOOD_CONFIDENCE)
    /\ TiersOf(returned[1].value) = {3}
    /\ TiersOf(GenerateV5Strategies(Rat(GOOD_CONFIDENCE * ConfidenceSteps - 1, ConfidenceSteps),
                                    returned[1].ball_count)) = {2}

-----------------------------------------------------------------------------
(* TimeRanker: _calculate_v5_time_score and identify_optimal_times_v5 *)

\* np.std is computed to 1 / ScoreScale, rounded down
ScoreScale == 100

RECURSIVE SqrtBetween(_, _, _)
\* the largest r of lo..hi with r * r <= n
SqrtBetween(n, lo, hi) ==
    IF lo >= hi THEN lo
    ELSE LET mid == (lo + hi + 1) \div 2
         IN  IF mid * mid <= n THEN SqrtBetween(n, mid, hi)
             ELSE SqrtBetween(n, lo, mid - 1)

\* the integer part of the square root of n
ISqrt(n) == SqrtBetween(n, 0, Min(n, 46340))

\* np.std(values): the square root of the mean squared distance to the mean
StdOf(values) ==
    LET n == Len(values)
        sum == SumSeq(values)
        squares == SumSeq([i \in 1..n |-> values[i] * values[i]])
        variance == Rat(n * squares - sum * sum, n * n)
    IN  Rat(ISqrt((variance[1] * ScoreScale * ScoreScale) \div variance[2]), ScoreScale)

\* the ball counts whose expected value enters the score
SCORED_BALL_COUNTS == <<4, 5, 6>>

\* _calculate_v5_time_score(pattern_data)
CalculateV5TimeScore(pattern_data) ==
    LET draws == RMin(RMul(Rat(pattern_data.total_draws, 30), RInt(25)), RInt(25))
        consistency == RMul(pattern_data.consistency_score, Rat(3, 10))
        combos == pattern_data.frequent_combinations
        combo_count == Len(combos)
        combo_strength == SumSeq([i \in 1..Len(combos) |-> combos[i].frequency])
        combinations == RMin(RAdd(RInt(combo_count * 2),
                                  RMul(RInt(combo_strength), Rat(1, 2))),
                             RInt(20))
        present == SelectSeq(SCORED_BALL_COUNTS,
                             LAMBDA b : b \in DOMAIN pattern_data.multiplier_potential)
        expected(k) == pattern_data.multiplier_potential[present[k]].expected_value
        mean == RDivInt(IF Len(present) = 1 THEN expected(1)
                        ELSE IF Len(present) = 2 THEN RAdd(expected(1), expected(2))
                        ELSE RAdd(RAdd(expected(1), expected(2)), expected(3)),
                        Len(present))
        multiplier == IF present # <<>> THEN RMul(mean, Rat(1, 10)) ELSE RInt(0)
        frequency ==
            IF pattern_data.numbers_frequency # <<>>
            THEN LET frequency_std == StdOf(DictValues(pattern_data.numbers_frequency))
                     left == RAdd(RInt(10), RMul(frequency_std, Rat(0 - 1, 2)))
                 IN  IF RLt(left, RInt(0)) THEN RInt(0) ELSE left
            ELSE RInt(0)
    IN  [draws        |-> draws,
         consistency  |-> consistency,
         combinations |-> combinations,
         multiplier   |-> multiplier,
         frequency    |-> frequency,
         total        |-> RAdd(RAdd(RAdd(RAdd(draws, consistency), combinations),
                                    multiplier), frequency)]

\* time_scores: an entry for each item of time_patterns with enough draws, in
\* the order of time_patterns
TimeScores(patterns) ==
    LET kept == SelectSeq(patterns,
                          LAMBDA item : item[2].total_draws >= MIN_DRAWS_FOR_ANALYSIS)
    IN  [j \in 1..Len(kept) |->
            LET scores == CalculateV5TimeScore(kept[j][2])
            IN  <<kept[j][1],
                  [total_score       |-> scores.total,
                   draw_score        |-> scores.draws,
                   consistency_score |-> scores.consistency,
                   combination_score |-> scores.combinations,
                   multiplier_score  |-> scores.multiplier,
                   frequency_score   |-> scores.frequency,
                   total_draws       |-> kept[j][2].total_draws,
                   corrected_time    |-> kept[j][2].corrected_time]>>]

\* sorted(items, key total_score) that puts equal scores in reverse order
SortByTotalScoreDescUnstable(items) ==
    LET score == Tabulate([i \in 1..Len(items) |-> items[i][2].total_score])
        place == Tabulate([i \in 1..Len(items) |->
                     Cardinality({j \in 1..Len(items) : RLt(score[i], score[j])})
                     + Cardinality({j \in i..Len(items) : score[j] = score[i]})])
    IN  [p \in 1..Len(items) |-> items[CHOOSE i \in 1..Len(items) : place[i] = p]]

\* sorted(time_scores.items(), key=lambda x: x[1]['total_score'], reverse=True)
SortByTotalScoreDesc(items) ==
    LET score == Tabulate([i \in 1..Len(items) |-> items[i][2].total_score])
        place == Tabulate([i \in 1..Len(items) |->
                     Cardinality({j \in 1..Len(items) : RLt(score[i], score[j])})
                     + Cardinality({j \in 1..i : score[j] = score[i]})])
    IN  [p \in 1..Len(items) |-> items[CHOOSE i \in 1..Len(items) : place[i] = p]]

-----------------------------------------------------------------------------
(* The data frame and its groups *)

\* the rows of one time slot of hour 8
SlotRows(m, balls) == [i \in 1..Len(balls) |-> [Hour |-> 8, Minute |-> m, Balls |-> balls[i]]]

\* five draws that share one number and two numbers, one with a missing cell
MixedGroup ==
    << PadRow(<<1, 2, 3, 4>>), PadRow(<<5, 6, 7, 8>>), PadRow(<<1, 9, 10, 11>>),
       PadRow(<<2, NaN, 1, 1>>), PadRow(<<1, 2, 3, 4>>) >>

\* five draws with more than MAX_RECOMMENDATIONS distinct numbers between them
WideGroup ==
    << PadRow(<<1, 2, 3, 4>>), PadRow(<<5, 6, 7, 8>>), PadRow(<<1, 9, 10, 11>>),
       PadRow(<<12, 13, 14, 15>>), PadRow(<<16, 17, 18, 19>>) >>

\* one draw fewer than a slot needs
ShortGroup == [i \in 1..(MIN_DRAWS_FOR_ANALYSIS - 1) |-> PadRow(<<1, 2, 3, 4>>)]

\* five rows without a number
EmptyGroup == [i \in 1..MIN_DRAWS_FOR_ANALYSIS |-> PadRow(<<>>)]

\* the largest group: two kinds of draws in turn
LongGroup ==
    [i \in 1..MaxDraws |-> IF i % 2 = 1 THEN PadRow(<<1, 2, 3, 4>>) ELSE PadRow(<<1, 9, 10, 11>>)]

RECURSIVE ConcatSlots(_, _)
\* the rows of the n first slots of a list of <<minute, balls of each row>>, the
\* last slot first
ConcatSlots(slots, n) ==
    IF n = 0 THEN <<>>
    ELSE SlotRows(slots[n][1], slots[n][2]) \o ConcatSlots(slots, n - 1)

\* a CSV file: the slots' rows, the latest slot first
FrameOf(slots) == ConcatSlots(slots, Len(slots))

\* The data frames: one slot; no slot with enough draws; two slots too small
\* that share a window, and a third; MaxSlots slots of two kinds in turn, with
\* equal scores; MaxSlots slots of which the first are the largest group, the
\* group with most numbers and the group with no number.
Frames ==
    { FrameOf(<< <<3, FillerGroup>> >>),
      FrameOf(<< <<3, ShortGroup>> >>),
      FrameOf(<< <<3, ShortGroup>>, <<4, ShortGroup>>, <<8, MixedGroup>> >>),
      FrameOf([i \in 1..MaxSlots |->
                  <<SlotMinute(i), IF i % 2 = 1 THEN FillerGroup ELSE MixedGroup>>]),
      FrameOf([i \in 1..MaxSlots |->
                  <<SlotMinute(i),
                    IF i = 1 THEN WideGroup
                    ELSE IF i = 2 THEN LongGroup
                    ELSE IF i = 3 THEN EmptyGroup
                    ELSE IF i % 2 = 1 THEN FillerGroup ELSE MixedGroup>>]) }

\* The files read by run_complete_v5_analysis besides: one slot, at one of three
\* minutes of which two share a window, that holds one group of each kind.
SingleSlotFrames ==
    { FrameOf(<< <<m, g>> >>) :
        m \in {3, 4, 8},
        g \in {FillerGroup, ShortGroup, MixedGroup, WideGroup, LongGroup, EmptyGroup} }

AllFrames == Frames \cup SingleSlotFrames

RowTimeKey(row) == TimeKeyOf(row.Hour, row.Minute)

RowCorrectedTimeKey(row) == ApplyTimingCorrection(row.Hour, row.Minute, TIMING_OFFSET_MINUTES)

RowTimeWindow(row) == CreateV5TimeWindow(row.Hour, row.Minute)

\* sorted(labels) of time keys or window labels: labels that start with a
\* zero-padded HH:MM, no two with the same, are in the order of their minute of the day
SortLabels(labels) ==
    LET at == Tabulate([s \in labels |-> MinuteOfDay(SubSeq(s, 1, 5))])
    IN  [p \in 1..Cardinality(labels) |->
            CHOOSE s \in labels : Cardinality({t \in labels : at[t] < at[s]}) = p - 1]

\* df.groupby(['TimeKey', 'CorrectedTimeKey']): <<time_key, corrected_time, rows>>
\* in the order of the keys, the rows of a group in file order
TimeGroups(rows) ==
    LET keys == SortLabels({RowTimeKey(rows[i]) : i \in 1..Len(rows)})
    IN  [p \in 1..Len(keys) |->
            LET mine == SelectSeq(rows, LAMBDA row : RowTimeKey(row) = keys[p])
            IN  <<keys[p], RowCorrectedTimeKey(mine[1]),
                  [i \in 1..Len(mine) |-> mine[i].Balls]>>]

\* df.groupby('TimeWindow'): <<window, rows>>
WindowGroups(rows) ==
    LET keys == SortLabels({RowTimeWindow(rows[i]) : i \in 1..Len(rows)})
    IN  [p \in 1..Len(keys) |->
            LET mine == SelectSeq(rows, LAMBDA row : RowTimeWindow(row) = keys[p])
            IN  <<keys[p], [i \in 1..Len(mine) |-> mine[i].Balls]>>]

\* The groups of each frame and the summary of each group are computed once.
FrameTimeGroups == Tabulate([f \in AllFrames |-> TimeGroups(f)])

FrameWindowGroups == Tabulate([f \in AllFrames |-> WindowGroups(f)])

\* the summary of each group <<time_key, corrected_time, rows>> of the frames
SlotSummaryOf ==
    Tabulate([g \in UNION {Range(FrameTimeGroups[f]) : f \in AllFrames} |->
                 ExactSummary(g[3], g[2])])

\* the summary of each group <<window, rows>> of the frames
WindowSummaryOf ==
    Tabulate([g \in UNION {Range(FrameWindowGroups[f]) : f \in AllFrames} |->
                 WindowSummary(g[2])])

\* one turn of the loop of analyze_exact_time_patterns_v5, for the group g
StoreSlot(patterns, g) ==
    IF Len(g[3]) >= MIN_DRAWS_FOR_ANALYSIS
    THEN DictSet(patterns, g[1], SlotSummaryOf[g])
    ELSE patterns

RECURSIVE StoreSlots(_, _, _)
\* the loop of analyze_exact_time_patterns_v5 over the n first groups
StoreSlots(patterns, groups, n) ==
    IF n = 0 THEN patterns
    ELSE StoreSlot(StoreSlots(patterns, groups, n - 1), groups[n])

\* one turn of the loop of analyze_time_window_patterns_v5 without its test
StoreWindowAnySize(patterns, g) == DictSet(patterns, g[1], WindowSummaryOf[g])

\* one turn of the loop of analyze_time_window_patterns_v5, for the group g
StoreWindow(patterns, g) ==
    IF Len(g[2]) >= WINDOW_MIN_DRAWS
    THEN DictSet(patterns, g[1], WindowSummaryOf[g])
    ELSE patterns

RECURSIVE StoreWindows(_, _, _)
\* the loop of analyze_time_window_patterns_v5 over the n first groups
StoreWindows(patterns, groups, n) ==
    IF n = 0 THEN patterns
    ELSE StoreWindow(StoreWindows(patterns, groups, n - 1), groups[n])

-----------------------------------------------------------------------------
(* RecommendationGenerator: generate_v5_recommendations *)

\* An optional argument is <<>> when it is None and <<value>> otherwise.
\* `if ball_count:` - None and 0 are false
Truthy(arg) == arg # <<>> /\ arg[1] # 0

\* the ball_recommendations dict of a summary, as <<ball count, entry>> items
StoredBallRecommendations(pattern_data) ==
    [b \in 1..MAX_BALLS |-> <<b, pattern_data.ball_recommendations[b]>>]

\* _get_v5_ball_recommendations(pattern_data, ball_count)
GetV5BallRecommendations(pattern_data, ball_count) ==
    IF ball_count \in DOMAIN pattern_data.ball_recommendations
    THEN << <<ball_count, pattern_data.ball_recommendations[ball_count]>> >>
    ELSE LET hot_numbers == pattern_data.hot_numbers
         IN  << <<ball_count,
                  [primary  |-> PySlice(hot_numbers, 0, ball_count),
                   backup   |-> PySlice(hot_numbers, ball_count, ball_count * 2),
                   extended |-> PySlice(hot_numbers, 0, ball_count * 3)]>> >>

\* recommendations[time_key] of generate_v5_recommendations
RecommendationFor(time_key, ball_count, patterns, ranking) ==
    LET pattern_data == DictGet(patterns, time_key)
        ball_recommendations ==
            IF Truthy(ball_count)
            THEN GetV5BallRecommendations(pattern_data, ball_count[1])
            ELSE StoredBallRecommendations(pattern_data)
        level == CalculateV5Confidence(pattern_data, time_key, ranking)
        strategies ==
            GenerateV5Strategies(level, IF Truthy(ball_count) THEN ball_count[1] ELSE 4)
    IN  [confidence_level     |-> level,
         corrected_time       |-> pattern_data.corrected_time,
         timing_offset        |-> TIMING_OFFSET_MINUTES,
         ball_recommendations |-> ball_recommendations,
         hot_numbers          |-> PySlice(pattern_data.hot_numbers, 0, 15),
         combination_plays    |-> PySlice(pattern_data.frequent_combinations, 0, 5),
         historical_draws     |-> pattern_data.total_draws,
         consistency_score    |-> pattern_data.consistency_score,
         strategies           |-> strategies,
         multiplier_analysis  |-> pattern_data.multiplier_potential]

\* generate_v5_recommendations(target_time, ball_count): the dict it returns, on
\* an analyzer whose time_patterns and optimal_times are patterns and ranking
GenerateV5Recommendations(target_time, ball_count, patterns, ranking) ==
    LET times_to_analyze ==
            IF target_time # <<>>
            THEN IF HasKey(patterns, target_time[1]) THEN target_time ELSE <<>>
            ELSE PySlice(DictKeys(ranking), 0, TOP_TIMES)
        kept == SelectSeq(times_to_analyze, LAMBDA time_key : HasKey(patterns, time_key))
    IN  [j \in 1..Len(kept) |->
            <<kept[j], RecommendationFor(kept[j], ball_count, patterns, ranking)>>]

-----------------------------------------------------------------------------
(* export_v5_analysis_results and the module keno_patterns_v5.py it writes *)

\* the literal 10 of the exports
EXPORT_TOP == 10

\* the confidence the generated module gives a time it has no pattern for
FALLBACK_CONFIDENCE == 60

\* global_frequency: the counts of every slot summary added up, a number placed
\* where it is first met
GlobalFrequency(patterns) ==
    LET met == Flatten([i \in 1..Len(patterns) |->
                           DictKeys(patterns[i][2].numbers_frequency)])
        keys == DictKeys(CounterOf(met))
    IN  [p \in 1..Len(keys) |->
            <<keys[p],
              SumSeq([i \in 1..Len(patterns) |->
                         CounterGet(patterns[i][2].numbers_frequency, keys[p])])>>]

\* what json.dumps writes of a summary and the generated functions read back:
\* lists of numbers and numbers as they are
ExportedPattern(pattern_data) ==
    [total_draws           |-> pattern_data.total_draws,
     corrected_time        |-> pattern_data.corrected_time,
     hot_numbers           |-> pattern_data.hot_numbers,
     consistency_score     |-> pattern_data.consistency_score,
     frequent_combinations |-> pattern_data.frequent_combinations]

\* the constants of keno_patterns_v5.py
PythonConfig(patterns, ranking, rows) ==
    LET first == PySlice(patterns, 0, EXPORT_TOP)
    IN  [TOTAL_DRAWS        |-> Len(rows),
         OPTIMAL_TIMES      |-> PySlice(DictKeys(ranking), 0, EXPORT_TOP),
         ALWAYS_HOT_NUMBERS |-> MostCommonKeys(GlobalFrequency(patterns), EXPORT_TOP),
         TIME_PATTERNS      |-> [i \in 1..Len(first) |->
                                    <<first[i][1], ExportedPattern(first[i][2])>>]]

\* V5_CONFIG["MULTIPLIERS"].get(ball_count, 0) of the generated module: json.dumps
\* wrote the keys 1..8 as the strings "1".."8", which no integer is equal to
GeneratedMultiplier(ball_count) == RInt(0)

\* calculate_v5_confidence(time_key) of the generated module
GeneratedCalculateV5Confidence(config, time_key) ==
    IF ~HasKey(config.TIME_PATTERNS, time_key) THEN RInt(FALLBACK_CONFIDENCE)
    ELSE
        LET pattern == DictGet(config.TIME_PATTERNS, time_key)
            base == RInt(BASE_CONFIDENCE)
            draw_boost == RMin(RMul(RInt(pattern.total_draws), DRAW_MULTIPLIER),
                               RInt(MAX_DRAW_BOOST))
            consistency_boost == RMul(pattern.consistency_score, CONSISTENCY_MULTIPLIER)
            combo_boost == RMul(RInt(Len(pattern.frequent_combinations)),
                                COMBINATION_MULTIPLIER)
            optimal_boost == IF time_key \in Range(PySlice(config.OPTIMAL_TIMES, 0, TOP_TIMES))
                             THEN OPTIMAL_BOOST ELSE 0
            total == RAdd(RAdd(RAdd(RAdd(base, draw_boost), consistency_boost), combo_boost),
                          RInt(optimal_boost))
        IN  RMin(total, RInt(MAX_CONFIDENCE))

\* get_v5_recommendations(time_key, ball_count) of the generated module
GeneratedGetV5Recommendations(config, time_key, ball_count) ==
    IF ~HasKey(config.TIME_PATTERNS, time_key)
    THEN [error            |-> "No data for specified time",
          fallback_numbers |-> PySlice(config.ALWAYS_HOT_NUMBERS, 0, ball_count * 2),
          confidence       |-> RInt(FALLBACK_CONFIDENCE)]
    ELSE
        LET pattern == DictGet(config.TIME_PATTERNS, time_key)
            hot_numbers == PySlice(pattern.hot_numbers, 0, ball_count * 3)
        IN  [primary_numbers   |-> PySlice(hot_numbers, 0, ball_count),
             backup_numbers    |-> PySlice(hot_numbers, ball_count, ball_count * 2),
             extended_numbers  |-> hot_numbers,
             confidence        |-> GeneratedCalculateV5Confidence(config, time_key),
             historical_draws  |-> pattern.total_draws,
             consistency_score |-> pattern.consistency_score,
             multiplier        |-> GeneratedMultiplier(ball_count),
             combinations      |-> PySlice(pattern.frequent_combinations, 0, 3),
             timing_corrected  |-> TRUE]

-----------------------------------------------------------------------------
(* SpecAnalyzer: one analyzer object, its methods called in any order *)

\* the analyzer after load_and_prepare_data
InitAnalyzer ==
    /\ hour = 8
    /\ minute = 3
    /\ offset = TIMING_OFFSET_MINUTES
    /\ timekey = TimeKeyOf(hour, minute)
    /\ corrected = <<ApplyTimingCorrection(hour, minute, offset)>>
    /\ window = <<CreateV5TimeWindow(hour, minute)>>
    /\ generated = <<>>
    /\ group = <<>>
    /\ helper = <<>>
    /\ time_patterns = <<>>
    /\ time_window_patterns = <<>>
    /\ optimal_times = <<>>
    /\ confidence = <<>>
    /\ df \in Frames
    /\ runs = NoRuns
    /\ exported = <<>>
    /\ returned = <<>>
    /\ pipeline = NoPipeline

\* analyzer.analyze_exact_time_patterns_v5()
AnalyzeExactTimes ==
    /\ LET groups == FrameTimeGroups[df]
       IN  time_patterns' = StoreSlots(time_patterns, groups, Len(groups))
    /\ runs' = [runs EXCEPT !.exact = TRUE, !.repeated = @ \/ FirstPassDone(runs)]
    /\ returned' = <<>>
    /\ UNCHANGED <<clockVars, group, helper, time_window_patterns, adviceVars, df, exported, pipeline>>

\* analyzer.analyze_time_window_patterns_v5()
AnalyzeTimeWindows ==
    /\ LET groups == FrameWindowGroups[df]
       IN  time_window_patterns' = StoreWindows(time_window_patterns, groups, Len(groups))
    /\ runs' = [runs EXCEPT !.window = TRUE, !.repeated = @ \/ FirstPassDone(runs)]
    /\ returned' = <<>>
    /\ UNCHANGED <<clockVars, group, helper, time_patterns, adviceVars, df, exported, pipeline>>

\* analyzer.identify_optimal_times_v5()
IdentifyOptimalTimesV5 ==
    /\ optimal_times' = SortByTotalScoreDesc(TimeScores(time_patterns))
    /\ runs' = [runs EXCEPT !.ranking = TRUE,
                            !.ranked_after_exact = @ \/ runs.exact,
                            !.repeated = @ \/ FirstPassDone(runs)]
    /\ returned' = <<>>
    /\ UNCHANGED <<clockVars, groupVars, confidence, df, exported, pipeline>>

\* the time keys asked about: two slots of the frames, the last slot of the
\* largest frames, and a time no frame has
QueryTimes ==
    {TimeKeyOf(8, 3), TimeKeyOf(8, 8), TimeKeyOf(8, SlotMinute(MaxSlots)), TimeKeyOf(9, 0)}

\* the ball counts asked about: inside 1..MAX_BALLS, zero, negative, too large
QueryBallCounts == {0 - 1, 0, 4, MAX_BALLS + 1}

\* generate_v5_recommendations that takes each summary it reports out of
\* time_patterns (pop in place of the subscript)
GenerateRecommendationsStepPopping ==
    /\ returned = <<>>
    /\ \E target_time \in {<<>>} \cup {<<k>> : k \in QueryTimes} :
       \E ball_count \in {<<>>} \cup {<<b>> : b \in QueryBallCounts} :
           LET value == GenerateV5Recommendations(target_time, ball_count,
                                                  time_patterns, optimal_times)
               taken == {value[j][1] : j \in 1..Len(value)}
           IN  /\ returned' = << [call        |-> "generate_v5_recommendations",
                                   target_time |-> target_time,
                                   ball_count  |-> ball_count,
                                   value       |-> value] >>
               /\ time_patterns' =
                      SelectSeq(time_patterns, LAMBDA entry : entry[1] \notin taken)
    /\ UNCHANGED <<clockVars, group, helper, time_window_patterns, adviceVars,
                   df, runs, exported, pipeline>>

\* analyzer.generate_v5_recommendations(target_time, ball_count), either argument
\* given or left out.  A query changes nothing but `returned`, so one query is
\* followed between two steps that change the analyzer or the exported module.
GenerateRecommendationsStep ==
    /\ returned = <<>>
    /\ \E target_time \in {<<>>} \cup {<<k>> : k \in QueryTimes} :
       \E ball_count \in {<<>>} \cup {<<b>> : b \in QueryBallCounts} :
           returned' = << [call        |-> "generate_v5_recommendations",
                           target_time |-> target_time,
                           ball_count  |-> ball_count,
                           value       |-> GenerateV5Recommendations(
                                               target_time, ball_count,
                                               time_patterns, optimal_times)] >>
    /\ UNCHANGED <<clockVars, groupVars, adviceVars, df, runs, exported, pipeline>>

\* analyzer.export_v5_analysis_results(): writes keno_patterns_v5.py
ExportV5AnalysisResults ==
    /\ exported' = <<PythonConfig(time_patterns, optimal_times, df)>>
    /\ returned' = <<>>
    /\ UNCHANGED <<clockVars, groupVars, adviceVars, df, runs, pipeline>>

\* keno_patterns_v5.get_v5_recommendations(time_key, ball_count)
GeneratedRecommendationsStep ==
    /\ returned = <<>>
    /\ exported # <<>>
    /\ \E time_key \in QueryTimes : \E ball_count \in QueryBallCounts :
           returned' = << [call        |-> "get_v5_recommendations",
                           target_time |-> <<time_key>>,
                           ball_count  |-> <<ball_count>>,
                           value       |-> GeneratedGetV5Recommendations(
                                               exported[1], time_key, ball_count)] >>
    /\ UNCHANGED <<clockVars, groupVars, adviceVars, df, runs, exported, pipeline>>

\* keno_patterns_v5.calculate_v5_confidence(time_key)
GeneratedConfidenceStep ==
    /\ returned = <<>>
    /\ exported # <<>>
    /\ \E time_key \in QueryTimes :
           returned' = << [call        |-> "calculate_v5_confidence",
                           target_time |-> <<time_key>>,
                           ball_count  |-> <<>>,
                           value       |-> GeneratedCalculateV5Confidence(
                                               exported[1], time_key)] >>
    /\ UNCHANGED <<clockVars, groupVars, adviceVars, df, runs, exported, pipeline>>

NextAnalyzer ==
    \/ AnalyzeExactTimes
    \/ AnalyzeTimeWindows
    \/ IdentifyOptimalTimesV5
    \/ GenerateRecommendationsStep
    \/ ExportV5AnalysisResults
    \/ GeneratedRecommendationsStep
    \/ GeneratedConfidenceStep

SpecAnalyzer == InitAnalyzer /\ [][NextAnalyzer]_vars

-----------------------------------------------------------------------------
(* Properties of SpecAnalyzer *)

\* C12: in the ranking total_score never increases from one entry to the next,
\* and two entries of equal total_score are in the order of their keys in the
\* slot summaries.
C12_NonIncreasingStable ==
    \A i \in 1..Len(optimal_times) : \A j \in (i + 1)..Len(optimal_times) :
        /\ RLe(optimal_times[j][2].total_score, optimal_times[i][2].total_score)
        /\ optimal_times[i][2].total_score = optimal_times[j][2].total_score =>
               /\ HasKey(time_patterns, optimal_times[i][1])
               /\ HasKey(time_patterns, optimal_times[j][1])
               /\ KeyIndex(time_patterns, optimal_times[i][1])
                      < KeyIndex(time_patterns, optimal_times[j][1])

\* a ranking of MaxSlots slots with two entries of equal score and two of
\* different scores, that is not in the order of the slot summaries
C12_Witness ==
    /\ runs.ranking
    /\ Len(optimal_times) = MaxSlots
    /\ \E i \in 1..Len(optimal_times) : \E j \in (i + 1)..Len(optimal_times) :
           optimal_times[i][2].total_score = optimal_times[j][2].total_score
    /\ \E i \in 1..Len(optimal_times) : \E j \in (i + 1)..Len(optimal_times) :
           RLt(optimal_times[j][2].total_score, optimal_times[i][2].total_score)
    /\ DictKeys(optimal_times) # DictKeys(time_patterns)

\* the number of rows of df whose label is k
RowsWith(label(_), k) == Cardinality({i \in 1..Len(df) : label(df[i]) = k})

\* the labels that at least `least` rows of df have
LabelsOf(label(_), least) ==
    {k \in {label(df[i]) : i \in 1..Len(df)} : RowsWith(label, k) >= least}

\* d holds each key of keys once and no other key
HasExactlyKeys(d, keys) ==
    /\ Range(DictKeys(d)) = keys
    /\ Len(d) = Cardinality(keys)

\* C13: once exact-time analysis, window analysis and then ranking have run, the
\* ranking has one entry for each time key of at least 5 rows and no other, the
\* window summaries are those of the windows of at least 8 rows, and an entry of
\* the ranking has the total_draws and corrected_time of the slot summary of its key.
C13_QualifyingGroupsOnly ==
    FirstPassDone(runs) =>
        /\ HasExactlyKeys(optimal_times, LabelsOf(RowTimeKey, 5))
        /\ HasExactlyKeys(time_window_patterns, LabelsOf(RowTimeWindow, 8))
        /\ \A i \in 1..Len(optimal_times) :
               /\ HasKey(time_patterns, optimal_times[i][1])
               /\ optimal_times[i][2].total_draws
                      = DictGet(time_patterns, optimal_times[i][1]).total_draws
               /\ optimal_times[i][2].total_draws = RowsWith(RowTimeKey, optimal_times[i][1])
               /\ optimal_times[i][2].corrected_time
                      = DictGet(time_patterns, optimal_times[i][1]).corrected_time

\* a frame with time keys of fewer than 5 rows whose window has 8 rows, and a
\* ranked slot whose window has fewer than 8
C13_Witness ==
    /\ FirstPassDone(runs)
    /\ Len(optimal_times) = 1
    /\ Len(time_window_patterns) = 1
    /\ \E i \in 1..Len(df) :
           /\ ~HasKey(optimal_times, RowTimeKey(df[i]))
           /\ HasKey(time_window_patterns, RowTimeWindow(df[i]))
    /\ \E i \in 1..Len(df) :
           /\ HasKey(optimal_times, RowTimeKey(df[i]))
           /\ ~HasKey(time_window_patterns, RowTimeWindow(df[i]))

\* C20: once exact-time analysis, window analysis and then ranking have run on
\* the analyzer, no later step - any of the three run again, in any order -
\* changes the slot summaries, the window summaries or the ranking.
C20_SecondRunChangesNothing ==
    [][ FirstPassDone(runs)
        => /\ time_patterns' = time_patterns
           /\ time_window_patterns' = time_window_patterns
           /\ optimal_times' = optimal_times ]_vars

\* an analysis method has run again after the first pass, on a frame of
\* MaxSlots slots and of windows with summaries
C20_Witness ==
    /\ runs.repeated
    /\ Len(time_patterns) = MaxSlots
    /\ Len(optimal_times) = MaxSlots
    /\ time_window_patterns # <<>>

\* the ranking over all slots with a summary
RankingOfAll == SortByTotalScoreDesc(TimeScores(time_patterns))

\* min(95, 50 + min(1.5 * totalDraws, 25) + 0.4 * consistencyScore + 2 * comboCount
\*              + timingBoost + optimalBoost) of a slot summary
StatedConfidence(summary, time_key) ==
    LET timingBoost == IF summary.corrected_time # time_key THEN 5 ELSE 0
        optimalBoost == IF time_key \in Range(PySlice(DictKeys(RankingOfAll), 0, 5))
                        THEN 10 ELSE 0
    IN  RMin(RInt(95),
             RAdd(RAdd(RAdd(RAdd(RAdd(RInt(50),
                                      RMin(RMul(Rat(3, 2), RInt(summary.total_draws)),
                                           RInt(25))),
                                 RMul(Rat(2, 5), summary.consistency_score)),
                            RInt(2 * Len(summary.frequent_combinations))),
                       RInt(timingBoost)),
                  RInt(optimalBoost)))

\* C14: the confidence of a slot, in a recommendation of the analyzer and from the
\* generated module written from the analyzer's present summaries, is the stated
\* sum cut at 95, with 5 for a corrected time that differs from the time key and
\* 10 for a slot among the five first of the ranking of all slots, whether or
\* not the ranking was made before the query.
C14_ConfidenceWhateverOrder ==
    returned # <<>> =>
        /\ returned[1].call = "generate_v5_recommendations" =>
               \A j \in 1..Len(returned[1].value) :
                   returned[1].value[j][2].confidence_level
                       = StatedConfidence(DictGet(time_patterns, returned[1].value[j][1]),
                                          returned[1].value[j][1])
        /\ (/\ returned[1].call = "calculate_v5_confidence"
            /\ HasKey(time_patterns, returned[1].target_time[1])
            /\ exported[1] = PythonConfig(time_patterns, RankingOfAll, df)) =>
               returned[1].value
                   = StatedConfidence(DictGet(time_patterns, returned[1].target_time[1]),
                                      returned[1].target_time[1])

\* C15: a recommendation query for a time key without a slot summary returns a
\* fallback made of the global hot numbers with confidence 60 (no query of the
\* program signals an error); it never returns an empty result.
C15_AbsentTimeFallsBack ==
    returned # <<>> =>
        /\ (/\ returned[1].call = "generate_v5_recommendations"
            /\ returned[1].target_time # <<>>
            /\ ~HasKey(time_patterns, returned[1].target_time[1])) =>
               returned[1].value # <<>>
        /\ (/\ returned[1].call = "get_v5_recommendations"
            /\ ~HasKey(exported[1].TIME_PATTERNS, returned[1].target_time[1])) =>
               /\ returned[1].value.confidence = RInt(60)
               /\ \A k \in 1..Len(returned[1].value.fallback_numbers) :
                      returned[1].value.fallback_numbers[k] = exported[1].ALWAYS_HOT_NUMBERS[k]

\* the numbers of a frequency counter at ranks lo..hi of its ranking by count
Ranks(freq, lo, hi) ==
    LET ranking == DictKeys(SortByCountDesc(freq))
    IN  SubSeq(ranking, lo, Min(hi, Len(ranking)))

\* C16: for a ball count b outside 1..8 asked about a slot with a summary (no
\* query of the program rejects a ball count), the recommendation holds one
\* entry, for b: primary the b most frequent numbers of the slot, backup the
\* numbers at ranks b+1..2b, extended the 3b most frequent numbers.
C16_OutOfRangeBallCountSlices ==
    (/\ returned # <<>>
     /\ returned[1].call = "generate_v5_recommendations"
     /\ returned[1].target_time # <<>>
     /\ HasKey(time_patterns, returned[1].target_time[1])
     /\ returned[1].ball_count # <<>>
     /\ returned[1].ball_count[1] \notin 1..8) =>
        LET b == returned[1].ball_count[1]
            freq == DictGet(time_patterns, returned[1].target_time[1]).numbers_frequency
        IN  /\ Len(returned[1].value) = 1
            /\ returned[1].value[1][2].ball_recommendations =
                   << <<b, [primary  |-> Ranks(freq, 1, b),
                            backup   |-> Ranks(freq, b + 1, 2 * b),
                            extended |-> Ranks(freq, 1, 3 * b)]>> >>

\* the queries generate_v5_recommendations is asked: each argument given or left out
Queries ==
    ({<<>>} \cup {<<k>> : k \in QueryTimes})
        \X ({<<>>} \cup {<<b>> : b \in QueryBallCounts})

\* C21: a call of generate_v5_recommendations, with or without a target time
\* and with any ball count, leaves the slot summaries, the window summaries and
\* the ranking as they were; and once the slot summaries are built, every step
\* that leaves the ranking as it was leaves the slot summaries, or at least the
\* answer to every query, as it was, so that a query repeated in a later state
\* with the same ranking returns an equal recommendation.
C21_QueriesReadOnly ==
    [][ /\ (returned' # <<>> /\ returned'[1].call = "generate_v5_recommendations")
            => /\ UNCHANGED <<time_patterns, time_window_patterns, optimal_times>>
               /\ returned'[1].value =
                      GenerateV5Recommendations(returned'[1].target_time,
                                                returned'[1].ball_count,
                                                time_patterns, optimal_times)
        /\ (runs.exact /\ optimal_times' = optimal_times)
            => \/ time_patterns' = time_patterns
               \/ \A q \in Queries :
                     GenerateV5Recommendations(q[1], q[2], time_patterns',
                                               optimal_times')
                         = GenerateV5Recommendations(q[1], q[2], time_patterns,
                                                     optimal_times) ]_vars

\* a query with a target time and one without, each answered with a
\* recommendation after every analysis has been run a second time and the
\* module exported
C21_Witness ==
    /\ returned # <<>>
    /\ returned[1].call = "generate_v5_recommendations"
    /\ returned[1].target_time = <<>>
    /\ returned[1].ball_count = <<MAX_BALLS + 1>>
    /\ Len(returned[1].value) > 1
    /\ runs.repeated
    /\ exported # <<>>

-----------------------------------------------------------------------------
(* SpecPipeline: run_complete_v5_analysis on a new analyzer *)

\* The file at csv_file_path: <<>> when pd.read_csv or the preparation of the
\* columns raises (no file, no Time column, a time that is not H:MM:SS),
\* <<rows>> otherwise.
CsvFiles == {<<>>} \cup {<<f>> : f \in AllFrames}

\* the methods run_complete_v5_analysis calls, in the order of its text
PipelineOrder ==
    << "load_and_prepare_data", "analyze_exact_time_patterns_v5",
       "analyze_time_window_patterns_v5", "identify_optimal_times_v5",
       "generate_v5_recommendations", "export_v5_analysis_results",
       "_display_v5_summary" >>

\* the method at position pc has returned
Advance(p, pc) == [p EXCEPT !.pc = pc, !.steps = Append(@, PipelineOrder[Len(@) + 1])]

\* TimeBasedKenoAnalyzerV5(csv_file_path), run_complete_v5_analysis entered
InitPipeline ==
    /\ hour = 8
    /\ minute = 3
    /\ offset = TIMING_OFFSET_MINUTES
    /\ timekey = TimeKeyOf(hour, minute)
    /\ corrected = <<ApplyTimingCorrection(hour, minute, offset)>>
    /\ window = <<CreateV5TimeWindow(hour, minute)>>
    /\ generated = <<>>
    /\ group = <<>>
    /\ helper = <<>>
    /\ time_patterns = <<>>
    /\ time_window_patterns = <<>>
    /\ optimal_times = <<>>
    /\ confidence = <<>>
    /\ df = <<>>
    /\ runs = NoRuns
    /\ exported = <<>>
    /\ returned = <<>>
    /\ \E csv \in CsvFiles : pipeline = [NoPipeline EXCEPT !.csv = csv, !.pc = "load"]

\* if not self.load_and_prepare_data(): the try block runs to its end
LoadAndPrepareData ==
    /\ pipeline.pc = "load"
    /\ pipeline.csv # <<>>
    /\ df' = pipeline.csv[1]
    /\ pipeline' = Advance(pipeline, "exact")
    /\ UNCHANGED <<clockVars, groupVars, adviceVars, runs, exported, returned>>

\* if not self.load_and_prepare_data(): the except block returns False, and
\* run_complete_v5_analysis returns False
LoadFails ==
    /\ pipeline.pc = "load"
    /\ pipeline.csv = <<>>
    /\ pipeline' = [Advance(pipeline, "done") EXCEPT !.result = <<FALSE>>]
    /\ UNCHANGED <<clockVars, groupVars, adviceVars, df, runs, exported, returned>>

\* self.analyze_exact_time_patterns_v5()
RunAnalyzeExactTimes ==
    /\ pipeline.pc = "exact"
    /\ LET groups == FrameTimeGroups[df]
       IN  time_patterns' = StoreSlots(time_patterns, groups, Len(groups))
    /\ runs' = [runs EXCEPT !.exact = TRUE, !.repeated = @ \/ FirstPassDone(runs)]
    /\ pipeline' = Advance(pipeline, "window")
    /\ UNCHANGED <<clockVars, group, helper, time_window_patterns, adviceVars, df,
                   exported, returned>>

\* self.analyze_time_window_patterns_v5()
RunAnalyzeTimeWindows ==
    /\ pipeline.pc = "window"
    /\ LET groups == FrameWindowGroups[df]
       IN  time_window_patterns' = StoreWindows(time_window_patterns, groups, Len(groups))
    /\ runs' = [runs EXCEPT !.window = TRUE, !.repeated = @ \/ FirstPassDone(runs)]
    /\ pipeline' = Advance(pipeline, "ranking")
    /\ UNCHANGED <<clockVars, group, helper, time_patterns, adviceVars, df,
                   exported, returned>>

\* self.identify_optimal_times_v5()
RunIdentifyOptimalTimes ==
    /\ pipeline.pc = "ranking"
    /\ optimal_times' = SortByTotalScoreDesc(TimeScores(time_patterns))
    /\ runs' = [runs EXCEPT !.ranking = TRUE,
                            !.ranked_after_exact = @ \/ runs.exact,
                            !.repeated = @ \/ FirstPassDone(runs)]
    /\ pipeline' = Advance(pipeline, "recommend")
    /\ UNCHANGED <<clockVars, groupVars, confidence, df, exported, returned>>

\* recommendations = self.generate_v5_recommendations()
RunGenerateRecommendations ==
    /\ pipeline.pc = "recommend"
    /\ returned' = << [call        |-> "generate_v5_recommendations",
                       target_time |-> <<>>,
                       ball_count  |-> <<>>,
                       value       |-> GenerateV5Recommendations(
                                           <<>>, <<>>, time_patterns, optimal_times)] >>
    /\ pipeline' = Advance(pipeline, "export")
    /\ UNCHANGED <<clockVars, groupVars, adviceVars, df, runs, exported>>

\* self.export_v5_analysis_results()
RunExport ==
    /\ pipeline.pc = "export"
    /\ exported' = <<PythonConfig(time_patterns, optimal_times, df)>>
    /\ pipeline' = Advance(pipeline, "summary")
    /\ UNCHANGED <<clockVars, groupVars, adviceVars, df, runs, returned>>

\* self._display_v5_summary(): best_time = list(self.optimal_times.keys())[0]
\* raises IndexError when the ranking is empty, and nothing catches it
DisplayV5Summary ==
    /\ pipeline.pc = "summary"
    /\ pipeline' = IF DictKeys(optimal_times) = <<>>
                   THEN [pipeline EXCEPT !.pc = "done", !.raised = <<"IndexError">>]
                   ELSE Advance(pipeline, "return")
    /\ UNCHANGED <<clockVars, groupVars, adviceVars, df, runs, exported, returned>>

\* return True
ReturnTrue ==
    /\ pipeline.pc = "return"
    /\ pipeline' = [pipeline EXCEPT !.pc = "done", !.result = <<TRUE>>]
    /\ UNCHANGED <<clockVars, groupVars, adviceVars, df, runs, exported, returned>>

NextPipeline ==
    \/ LoadAndPrepareData
    \/ LoadFails
    \/ RunAnalyzeExactTimes
    \/ RunAnalyzeTimeWindows
    \/ RunIdentifyOptimalTimes
    \/ RunGenerateRecommendations
    \/ RunExport
    \/ DisplayV5Summary
    \/ ReturnTrue

SpecPipeline == InitPipeline /\ [][NextPipeline]_vars

-----------------------------------------------------------------------------
(* Properties of SpecPipeline *)

\* s is the first Len(s) elements of t
IsPrefix(s, t) == Len(s) <= Len(t) /\ s = SubSeq(t, 1, Len(s))

\* C23: for a draw history that loads, one whose ranking is empty included,
\* run_complete_v5_analysis calls load, exact-time analysis, window analysis,
\* ranking, recommendation, export and summary in that order, raises nothing
\* and returns True after all seven; it returns False only when loading
\* fails, and then has called no analysis method.
C23_RunsToTheEndInOrder ==
    /\ pipeline.raised = <<>>
    /\ IsPrefix(pipeline.steps, PipelineOrder)
    /\ pipeline.result = <<TRUE>> => pipeline.csv # <<>> /\ pipeline.steps = PipelineOrder
    /\ pipeline.result = <<FALSE>>
           => pipeline.csv = <<>> /\ pipeline.steps = SubSeq(PipelineOrder, 1, 1)
    /\ pipeline.pc = "done" => pipeline.result = <<pipeline.csv # <<>> >>

=============================================================================
